---- MODULE Spec2Model ----
(***************************************************************************)
(* Model of the spaced-repetition scheduler (services/spaced_repetition),  *)
(* the vocabulary review handler (services/vocabulary_service), the streak *)
(* tracker (models/progress.Streak, services/progress_service) and the     *)
(* achievement engine (services/progress_service) of the avilingo backend. *)
(*                                                                         *)
(* One user is modelled; every table is keyed by that user.  A table is a  *)
(* function whose DOMAIN is the set of keys that have a row.  The single   *)
(* Streak row of the user is a sequence of length 0 (no row) or 1.         *)
(* Ease factors are kept in hundredths (2.5 is 250): the code rounds every *)
(* stored ease factor to two decimals.                                     *)
(***************************************************************************)
EXTENDS Integers, Sequences, FiniteSets, TLC

(***************************************************************************)
(* Bounds of the model                                                     *)
(***************************************************************************)
MaxReviews == 7          \* reviews of one term (caps total_reviews)
MaxDay == 4              \* calendar days 0..MaxDay
NumTerms == 10           \* vocabulary terms 1..NumTerms
MaxXP == 1400            \* cap of user.total_xp before achievement rewards
MaxMinutes == 40         \* cap of user.total_practice_minutes
MaxAttempts == 2         \* completed attempts of one listening exercise
MaxSubmissions == 2      \* speaking submissions

HOURS_PER_DAY == 24
Days == 0..MaxDay
Terms == 1..NumTerms
Qualities == 0..5        \* VocabularyReviewRequest.quality: ge=0, le=5
Exercises == {1, 2}      \* ListeningExercise rows
Scenarios == {1, 2}      \* SpeakingScenario rows
TickSteps == {12, 24}    \* hours that pass between two requests
NoDate == -1             \* a NULL date column
NoTime == -1             \* a NULL datetime column

\* datetime.date() of a datetime counted in hours
date_of(t) == t \div HOURS_PER_DAY

(***************************************************************************)
(* services/spaced_repetition.py                                           *)
(***************************************************************************)
MIN_EASE_FACTOR == 130
DEFAULT_EASE_FACTOR == 250
MAX_INTERVAL == 365

Max(a, b) == IF a >= b THEN a ELSE b
Min(a, b) == IF a <= b THEN a ELSE b

XP_BY_QUALITY == [q \in 0..5 |->
    CASE q = 0 -> 0 [] q = 1 -> 2 [] q = 2 -> 3
      [] q = 3 -> 5 [] q = 4 -> 8 [] q = 5 -> 10]

get_xp_for_quality(quality) ==
    IF quality \in DOMAIN XP_BY_QUALITY THEN XP_BY_QUALITY[quality] ELSE 0

\* The quality taken as it comes: a plausible slip
clamp_quality_missing(quality) == quality

\* quality = max(0, min(5, quality))
clamp_quality(quality) == Max(0, Min(5, quality))

\* 0.1 - (5 - q) * (0.08 + (5 - q) * 0.02), in hundredths
ease_delta(q) == 10 - (5 - q) * (8 + (5 - q) * 2)

\* The ease factor without the floor: a plausible slip
new_ease_unfloored(quality, current_ease_factor) ==
    current_ease_factor + ease_delta(clamp_quality(quality))

\* max(MIN_EASE_FACTOR, current + delta), returned as round(., 2)
new_ease(quality, current_ease_factor) ==
    Max(MIN_EASE_FACTOR, current_ease_factor + ease_delta(clamp_quality(quality)))

\* The product cut off instead of rounded: a plausible slip
round_product_truncated(interval, ease) == {(interval * ease) \div 100}

\* round(current_interval * new_ease_factor): Python rounds the double
\* product to the nearest integer.  When interval * ease is exactly half
\* way between two integers the double product lies a rounding error above
\* or below the half (25 * 1.94 gives 49, 85 * 2.3 gives 195), so both
\* neighbours are possible outcomes.
round_product(interval, ease) ==
    LET n == interval * ease
        lo == n \div 100
        r == n % 100
    IN  IF r < 50 THEN {lo}
        ELSE IF r > 50 THEN {lo + 1}
        ELSE {lo, lo + 1}

\* Repetitions kept on a failed recall: a plausible slip
new_repetitions_kept(q, current_repetitions) ==
    IF q < 3 THEN current_repetitions ELSE current_repetitions + 1

\* new_repetitions: 0 after a failed recall, one more after a success
new_repetitions(q, current_repetitions) ==
    IF q < 3 THEN 0 ELSE current_repetitions + 1

\* The interval without the cap: a plausible slip
cap_interval_missing(new_interval) == new_interval

\* new_interval = min(new_interval, 365)
cap_interval(new_interval) == Min(new_interval, MAX_INTERVAL)

\* The set of results calculate_sm2 can return at time t (a singleton
\* except on a rounding tie).
calculate_sm2(quality, current_ease_factor, current_interval, current_repetitions, t) ==
    LET q == clamp_quality(quality)
        ef == new_ease(quality, current_ease_factor)
        reps == new_repetitions(q, current_repetitions)
        ivs == IF q < 3 THEN {1}
               ELSE IF reps = 1 THEN {1}
               ELSE IF reps = 2 THEN {6}
               ELSE round_product(current_interval, ef)
    IN  { [ease_factor |-> ef,
           interval_days |-> cap_interval(iv),
           repetitions |-> reps,
           next_review_at |-> t + cap_interval(iv) * HOURS_PER_DAY] : iv \in ivs }

\* The ease factor component without min(1.0, .): a plausible slip
ef_normalized_unclamped(ease_factor) == Max(0, ease_factor - 130)

\* ef_normalized = min(1.0, max(0.0, (ease_factor - 1.3) / 1.7)), as a number
\* of 170ths
ef_normalized(ease_factor) == Min(170, Max(0, ease_factor - 130))

\* rep_normalized = min(1.0, repetitions / 5), as a number of fifths
rep_normalized(repetitions) == Min(5, repetitions)

\* calculate_mastery_percent, in tenths of a percent: the set of values
\* round(accuracy * 40 + ef_normalized * 30 + rep_normalized * 30, 1) can
\* take (a singleton unless the sum is half way between two tenths, where
\* the rounding error of the double sum decides)
calculate_mastery_percent(ease_factor, repetitions, correct_reviews, total_reviews) ==
    IF total_reviews = 0 THEN {0}
    ELSE LET den == 17 * total_reviews
             num == 400 * correct_reviews * 17
                    + 30 * ef_normalized(ease_factor) * total_reviews
                    + 60 * rep_normalized(repetitions) * den
             lo == num \div den
             r == num % den
         IN  IF 2 * r < den THEN {lo}
             ELSE IF 2 * r > den THEN {lo + 1}
             ELSE {lo, lo + 1}

(***************************************************************************)
(* State                                                                   *)
(***************************************************************************)
VARIABLES
    now,              \* datetime.utcnow(), in hours
    vocab_progress,   \* VocabularyProgress rows, keyed by term
    daily_progress,   \* DailyProgress rows, keyed by date
    user,             \* the User row
    streak,           \* the Streak row: <<>> or <<row>>
    user_achievements,\* UserAchievement rows, keyed by achievement
    listening_attempts,\* how many completed ListeningAttempt rows, by exercise
    speaking_submissions,\* SpeakingSubmission rows, in order of creation
    achievement_order,\* the order in which select(Achievement) yields the rows
    db_sessions,      \* the SQLAlchemy Session of each request in flight
    started,          \* the database when the requests in flight began, and
                      \* the requests begun since then
    result            \* what the last operation returned

vars == <<now, vocab_progress, daily_progress, user, streak,
          user_achievements, listening_attempts, speaking_submissions,
          achievement_order, db_sessions, started, result>>

\* The state of the requests that are executed statement by statement
in_flight == <<db_sessions, started>>

\* The tables of the listening and speaking exercises
practice_tables == <<listening_attempts, speaking_submissions>>

(***************************************************************************)
(* db/seed_achievements.py: the part of the catalog that is modelled       *)
(***************************************************************************)
ACHIEVEMENTS ==
    [first_word |-> [category |-> "vocabulary", requirement_type |-> "first",
                     requirement_value |-> 1, xp_reward |-> 50, is_hidden |-> FALSE,
                     sort_order |-> 1],
     vocab_10   |-> [category |-> "vocabulary", requirement_type |-> "vocab_count",
                     requirement_value |-> 10, xp_reward |-> 100, is_hidden |-> FALSE,
                     sort_order |-> 10],
     streak_3   |-> [category |-> "streak", requirement_type |-> "streak",
                     requirement_value |-> 3, xp_reward |-> 75, is_hidden |-> FALSE,
                     sort_order |-> 40],
     xp_1000    |-> [category |-> "general", requirement_type |-> "total_xp",
                     requirement_value |-> 1000, xp_reward |-> 100, is_hidden |-> FALSE,
                     sort_order |-> 50],
     xp_50000   |-> [category |-> "general", requirement_type |-> "total_xp",
                     requirement_value |-> 50000, xp_reward |-> 2000, is_hidden |-> TRUE,
                     sort_order |-> 53]]

\* The achievements that are not secret: the rows of the achievements table
\* of a database to which the secret ones have not been added
AchIds == {a \in DOMAIN ACHIEVEMENTS : ~ACHIEVEMENTS[a].is_hidden}

\* select(Achievement) has no ORDER BY: the rows come in the order of the
\* table scan, which follows the primary key, a random UUID
Orders ==
    {o \in [1..Cardinality(AchIds) -> AchIds] :
        \A i, j \in DOMAIN o : i # j => o[i] # o[j]}

\* date.today()
today == date_of(now)

\* The server processes that handle the requests of the user
Workers == {1, 2}

\* A server process that handles no request
IdleSession == [pc |-> "idle"]

\* No request is in flight
NothingStarted == [base |-> <<>>, at |-> 0, requests |-> <<>>, failed |-> 0]

\* f with the row at key k inserted or replaced
Put(f, k, row) == [x \in (DOMAIN f) \cup {k} |-> IF x = k THEN row ELSE f[x]]

EmptyTable == [x \in {} |-> 0]

\* models/user.py column defaults
NewUser == [total_xp |-> 0, total_practice_minutes |-> 0,
            daily_goal_minutes |-> 15, last_practice_at |-> NoTime]

\* models/progress.py DailyProgress column defaults
NewDaily == [vocab_reviewed |-> 0, listening_completed |-> 0,
             speaking_completed |-> 0, practice_minutes |-> 0,
             xp_earned |-> 0, goal_met |-> FALSE]

\* The order of db/seed_achievements.py, which an auto-increment key gives
SeedOrder == <<"first_word", "vocab_10", "streak_3", "xp_1000">>

\* A new user in a database whose achievements table is scanned in any order
Init ==
    /\ now = 0
    /\ vocab_progress = EmptyTable
    /\ daily_progress = EmptyTable
    /\ user = NewUser
    /\ streak = <<>>
    /\ user_achievements = EmptyTable
    /\ listening_attempts = [e \in Exercises |-> 0]
    /\ speaking_submissions = <<>>
    /\ achievement_order \in Orders
    /\ db_sessions = [w \in Workers |-> IdleSession]
    /\ started = NothingStarted
    /\ result = [op |-> "init"]

\* A new user in a database seeded by db/seed_achievements.py
InitSeeded == Init /\ achievement_order = SeedOrder

(***************************************************************************)
(* Time passes between two requests.                                       *)
(***************************************************************************)
Tick(dt) ==
    /\ date_of(now + dt) <= MaxDay
    /\ now' = now + dt
    /\ result' = [op |-> "tick"]
    /\ UNCHANGED <<vocab_progress, daily_progress, user, streak, user_achievements,
                   practice_tables, achievement_order, in_flight>>

(***************************************************************************)
(* services/vocabulary_service.py                                          *)
(***************************************************************************)
\* The day's record written with this review's values instead of having
\* them added: a plausible slip
vocab_update_daily_progress_overwrite(daily, d, xp_earned) ==
    IF d \notin DOMAIN daily
    THEN Put(daily, d, [NewDaily EXCEPT !.vocab_reviewed = 1, !.xp_earned = xp_earned])
    ELSE [daily EXCEPT ![d].vocab_reviewed = 1, ![d].xp_earned = xp_earned]

\* VocabularyService._update_daily_progress
vocab_update_daily_progress(daily, d, xp_earned) ==
    IF d \notin DOMAIN daily
    THEN Put(daily, d, [NewDaily EXCEPT !.vocab_reviewed = 1, !.xp_earned = xp_earned])
    ELSE [daily EXCEPT ![d].vocab_reviewed = @ + 1, ![d].xp_earned = @ + xp_earned]

\* VocabularyService._update_user_stats
update_user_stats(u, xp_earned, t) ==
    [u EXCEPT !.total_xp = @ + xp_earned, !.last_practice_at = t]

\* The row submit_review works on: the stored one, or a new one
review_row(term_id) ==
    IF term_id \in DOMAIN vocab_progress
    THEN vocab_progress[term_id]
    ELSE [ease_factor |-> DEFAULT_EASE_FACTOR, interval_days |-> 1,
          repetitions |-> 0, next_review_at |-> NoTime,
          total_reviews |-> 0, correct_reviews |-> 0,
          last_quality |-> -1, last_reviewed_at |-> NoTime]

\* A review counted as correct from quality 2 on: a plausible slip
count_review_lenient(progress, quality) ==
    [progress EXCEPT !.total_reviews = @ + 1,
                     !.correct_reviews = IF quality >= 2 THEN @ + 1 ELSE @]

\* submit_review, lines 342 and 346-347: the lifetime counters of the row
count_review(progress, quality) ==
    [progress EXCEPT !.total_reviews = @ + 1,
                     !.correct_reviews = IF quality >= 3 THEN @ + 1 ELSE @]

\* VocabularyService.submit_review for an existing term
submit_review(term_id, quality) ==
    LET progress == review_row(term_id) IN
    /\ progress.total_reviews < MaxReviews
    /\ user.total_xp + get_xp_for_quality(quality) <= MaxXP
    /\ \E sm2_result \in calculate_sm2(quality, progress.ease_factor,
                                       progress.interval_days, progress.repetitions, now) :
        LET xp_earned == get_xp_for_quality(quality)
            updated == [count_review(progress, quality) EXCEPT
                !.ease_factor = sm2_result.ease_factor,
                !.interval_days = sm2_result.interval_days,
                !.repetitions = sm2_result.repetitions,
                !.next_review_at = sm2_result.next_review_at,
                !.last_quality = quality,
                !.last_reviewed_at = now]
        IN  /\ vocab_progress' = Put(vocab_progress, term_id, updated)
            /\ daily_progress' = vocab_update_daily_progress(daily_progress, today, xp_earned)
            /\ user' = update_user_stats(user, xp_earned, now)
            /\ result' = [op |-> "submit_review", term_id |-> term_id,
                          new_ease_factor |-> sm2_result.ease_factor,
                          new_interval_days |-> sm2_result.interval_days,
                          new_repetitions |-> sm2_result.repetitions,
                          xp_earned |-> xp_earned,
                          streak_maintained |-> (quality >= 3)]
    /\ UNCHANGED <<now, streak, user_achievements, practice_tables, achievement_order, in_flight>>

(***************************************************************************)
(* The scheduler under repeated reviews of one term                        *)
(***************************************************************************)
NextSM2 == \E q \in Qualities : submit_review(1, q)

SpecSM2 == InitSeeded /\ [][NextSM2]_vars

\* C1: whatever sequence of qualities a new item is reviewed with, its
\* stored ease factor is never below 1.3.
C1_EaseFloor ==
    \A t \in DOMAIN vocab_progress : vocab_progress[t].ease_factor >= 130

\* The floor has acted: two blackouts take 2.5 to 1.7 and then to the floor.
C1_Witness ==
    /\ 1 \in DOMAIN vocab_progress
    /\ vocab_progress[1].ease_factor = 130
    /\ vocab_progress[1].total_reviews = 2

\* C2: whatever sequence of qualities a new item is reviewed with, its
\* interval is an integer number of days within 1..365.
C2_IntervalRange ==
    \A t \in DOMAIN vocab_progress : vocab_progress[t].interval_days \in 1..365

\* The cap has acted: after six perfect recalls 147 * 3.1 = 456 is cut to
\* 365, and a seventh review starts from the capped interval.
C2_Witness ==
    /\ 1 \in DOMAIN vocab_progress
    /\ vocab_progress[1].interval_days = 365
    /\ vocab_progress[1].repetitions >= 7

\* C3: a review with quality >= 3 makes repetitions one more than before,
\* a review with quality < 3 makes repetitions 0 and the interval 1 day.
C3_SchedulerMonotonicity ==
    [][\A t \in Terms :
         (result'.op = "submit_review" /\ result'.term_id = t) =>
            IF vocab_progress'[t].last_quality >= 3
            THEN vocab_progress'[t].repetitions = review_row(t).repetitions + 1
            ELSE /\ vocab_progress'[t].repetitions = 0
                 /\ vocab_progress'[t].interval_days = 1]_vars

\* A failed recall of an established item: three successes, then a reset.
C3_Witness ==
    /\ result.op = "submit_review"
    /\ vocab_progress[1].last_quality < 3
    /\ vocab_progress[1].correct_reviews >= 3
    /\ vocab_progress[1].repetitions = 0
    /\ vocab_progress[1].interval_days = 1

\* C18: a submit_review on an item adds exactly 1 to its total_reviews and
\* adds 1 to its correct_reviews if the quality is >= 3 and 0 otherwise; no
\* step lowers either counter of any item, and correct_reviews never
\* exceeds total_reviews.
C18_LifetimeCounters ==
    [][/\ \A t \in Terms :
            (result'.op = "submit_review" /\ result'.term_id = t) =>
               /\ vocab_progress'[t].total_reviews = review_row(t).total_reviews + 1
               /\ vocab_progress'[t].correct_reviews = review_row(t).correct_reviews
                     + (IF vocab_progress'[t].last_quality >= 3 THEN 1 ELSE 0)
       /\ \A t \in DOMAIN vocab_progress :
            /\ t \in DOMAIN vocab_progress'
            /\ vocab_progress'[t].total_reviews >= vocab_progress[t].total_reviews
            /\ vocab_progress'[t].correct_reviews >= vocab_progress[t].correct_reviews
       /\ \A t \in DOMAIN vocab_progress' :
            /\ vocab_progress'[t].correct_reviews >= 0
            /\ vocab_progress'[t].correct_reviews <= vocab_progress'[t].total_reviews
      ]_vars

\* A review with quality 2 has just been counted as a review but not as a
\* correct one, after reviews of both kinds.
C18_Witness ==
    /\ result.op = "submit_review"
    /\ vocab_progress[1].last_quality = 2
    /\ vocab_progress[1].total_reviews = 4
    /\ vocab_progress[1].correct_reviews = 2

(***************************************************************************)
(* The functions of services/spaced_repetition.py on arguments of any      *)
(* caller                                                                  *)
(***************************************************************************)
\* Arguments of calculate_mastery_percent and calculate_sm2
MasteryEases == {130, 131, 215, 230, 300, 301, 400}
AnyQuality == -2..7
PriorEases == {130, 250, 300}
PriorIntervals == {1, 6, 15, 365}
PriorRepetitions == 0..3

\* A call of calculate_mastery_percent
apply_calculate_mastery_percent ==
    /\ \E ease_factor \in MasteryEases, repetitions \in 0..MaxReviews,
          total_reviews \in 0..MaxReviews :
         \E correct_reviews \in 0..total_reviews :
           \E percent \in calculate_mastery_percent(ease_factor, repetitions,
                                                    correct_reviews, total_reviews) :
             result' = [op |-> "calculate_mastery_percent",
                        ease_factor |-> ease_factor, repetitions |-> repetitions,
                        correct_reviews |-> correct_reviews,
                        total_reviews |-> total_reviews,
                        returned |-> percent]
    /\ UNCHANGED <<now, vocab_progress, daily_progress, user, streak, user_achievements,
                   practice_tables, achievement_order, in_flight>>

\* A call of calculate_sm2
apply_calculate_sm2 ==
    /\ \E quality \in AnyQuality, current_ease_factor \in PriorEases,
          current_interval \in PriorIntervals, current_repetitions \in PriorRepetitions :
         result' = [op |-> "calculate_sm2", quality |-> quality,
                    current_ease_factor |-> current_ease_factor,
                    current_interval |-> current_interval,
                    current_repetitions |-> current_repetitions,
                    returned |-> calculate_sm2(quality, current_ease_factor,
                                               current_interval, current_repetitions, now)]
    /\ UNCHANGED <<now, vocab_progress, daily_progress, user, streak, user_achievements,
                   practice_tables, achievement_order, in_flight>>

NextCalc ==
    \/ apply_calculate_mastery_percent
    \/ apply_calculate_sm2

SpecCalc == InitSeeded /\ [][NextCalc]_vars

\* C14: for ease >= 1.3, repetitions >= 0 and 0 <= correct_reviews <=
\* total_reviews calculate_mastery_percent returns a value within 0..100
\* (0..1000 tenths), and exactly 0 when total_reviews = 0.
C14_MasteryBounds ==
    result.op = "calculate_mastery_percent" =>
        /\ result.returned \in 0..1000
        /\ result.total_reviews = 0 => result.returned = 0

\* The upper bound is met where the ease factor lies above the 1.3-3.0 range.
C14_Witness ==
    /\ result.op = "calculate_mastery_percent"
    /\ result.ease_factor = 400
    /\ result.repetitions > 5
    /\ result.correct_reviews = result.total_reviews
    /\ result.returned = 1000

\* The quality is outside 0..5
OutOfRange(quality) == quality < 0 \/ quality > 5

\* C19: for a quality below 0 calculate_sm2 returns what it returns for
\* quality 0, for a quality above 5 what it returns for quality 5, whatever
\* the prior ease factor, interval and repetitions; it returns a result.
C19_QualityClamping ==
    (result.op = "calculate_sm2" /\ OutOfRange(result.quality)) =>
        /\ result.returned # {}
        /\ result.returned =
             calculate_sm2(IF result.quality < 0 THEN 0 ELSE 5,
                           result.current_ease_factor, result.current_interval,
                           result.current_repetitions, now)

\* A quality of 7 has been treated as a perfect recall: 2.5 became 2.6 and
\* the third repetition multiplied the interval.
C19_Witness ==
    /\ result.op = "calculate_sm2"
    /\ result.quality = 7
    /\ result.current_ease_factor = 250
    /\ result.current_repetitions = 2
    /\ result.current_interval = 6
    /\ result.returned = {[ease_factor |-> 260, interval_days |-> 16, repetitions |-> 3,
                           next_review_at |-> now + 16 * HOURS_PER_DAY]}

\* C13: after a successful submit_review the streak tracker has been updated
\* for today (the user's last_practice_date is today) and the achievements
\* have been evaluated (the first reviewed term has unlocked first_word).
C13_EventOrdering ==
    result.op = "submit_review" =>
        /\ streak # <<>>
        /\ streak[1].last_practice_date = today
        /\ "first_word" \in DOMAIN user_achievements
        /\ user_achievements["first_word"].is_unlocked

(***************************************************************************)
(* models/progress.py: Streak                                              *)
(***************************************************************************)
\* Streak(user_id=user_id) after the flush: the column defaults
NewStreak == [current_streak |-> 0, longest_streak |-> 0,
              last_practice_date |-> NoDate]

\* update_streak that forgets longest_streak on a consecutive day and
\* counts a same-day call as a new day: plausible slips
Streak_update_streak_slips(self, practice_date) ==
    IF self.last_practice_date = NoDate
    THEN [row |-> [current_streak |-> 1,
                   longest_streak |-> Max(self.longest_streak, 1),
                   last_practice_date |-> practice_date],
          returned |-> TRUE]
    ELSE LET days_diff == practice_date - self.last_practice_date IN
         IF days_diff = 0 \/ days_diff = 1
         THEN [row |-> [self EXCEPT !.current_streak = @ + 1,
                                    !.last_practice_date = practice_date],
               returned |-> TRUE]
         ELSE [row |-> [self EXCEPT !.current_streak = 1,
                                    !.last_practice_date = practice_date],
               returned |-> FALSE]

\* update_streak that reports a broken streak as maintained: a plausible slip
Streak_update_streak_always_true(self, practice_date) ==
    IF self.last_practice_date = NoDate
    THEN [row |-> [current_streak |-> 1,
                   longest_streak |-> Max(self.longest_streak, 1),
                   last_practice_date |-> practice_date],
          returned |-> TRUE]
    ELSE LET days_diff == practice_date - self.last_practice_date IN
         IF days_diff = 0
         THEN [row |-> self, returned |-> TRUE]
         ELSE IF days_diff = 1
         THEN [row |-> [current_streak |-> self.current_streak + 1,
                        longest_streak |-> Max(self.longest_streak, self.current_streak + 1),
                        last_practice_date |-> practice_date],
               returned |-> TRUE]
         ELSE [row |-> [self EXCEPT !.current_streak = 1,
                                    !.last_practice_date = practice_date],
               returned |-> TRUE]

\* update_streak that assigns the new streak to longest_streak without
\* max(): a plausible slip
Streak_update_streak_no_max(self, practice_date) ==
    IF self.last_practice_date = NoDate
    THEN [row |-> [current_streak |-> 1,
                   longest_streak |-> Max(self.longest_streak, 1),
                   last_practice_date |-> practice_date],
          returned |-> TRUE]
    ELSE LET days_diff == practice_date - self.last_practice_date IN
         IF days_diff = 0
         THEN [row |-> self, returned |-> TRUE]
         ELSE IF days_diff = 1
         THEN [row |-> [current_streak |-> self.current_streak + 1,
                        longest_streak |-> self.current_streak + 1,
                        last_practice_date |-> practice_date],
               returned |-> TRUE]
         ELSE [row |-> [self EXCEPT !.current_streak = 1,
                                    !.last_practice_date = practice_date],
               returned |-> FALSE]

\* A missed day forgiven, the streak continued over a gap of two days: a
\* plausible slip
Streak_update_streak_grace(self, practice_date) ==
    IF self.last_practice_date = NoDate
    THEN [row |-> [current_streak |-> 1,
                   longest_streak |-> Max(self.longest_streak, 1),
                   last_practice_date |-> practice_date],
          returned |-> TRUE]
    ELSE LET days_diff == practice_date - self.last_practice_date IN
         IF days_diff = 0
         THEN [row |-> self, returned |-> TRUE]
         ELSE IF days_diff = 1 \/ days_diff = 2
         THEN [row |-> [current_streak |-> self.current_streak + 1,
                        longest_streak |-> Max(self.longest_streak, self.current_streak + 1),
                        last_practice_date |-> practice_date],
               returned |-> TRUE]
         ELSE [row |-> [self EXCEPT !.current_streak = 1,
                                    !.last_practice_date = practice_date],
               returned |-> FALSE]

\* Streak.update_streak: the row after the call and the returned flag
Streak_update_streak(self, practice_date) ==
    IF self.last_practice_date = NoDate
    THEN [row |-> [current_streak |-> 1,
                   longest_streak |-> Max(self.longest_streak, 1),
                   last_practice_date |-> practice_date],
          returned |-> TRUE]
    ELSE LET days_diff == practice_date - self.last_practice_date IN
         IF days_diff = 0
         THEN [row |-> self, returned |-> TRUE]
         ELSE IF days_diff = 1
         THEN [row |-> [current_streak |-> self.current_streak + 1,
                        longest_streak |-> Max(self.longest_streak, self.current_streak + 1),
                        last_practice_date |-> practice_date],
               returned |-> TRUE]
         ELSE [row |-> [self EXCEPT !.current_streak = 1,
                                    !.last_practice_date = practice_date],
               returned |-> FALSE]

(***************************************************************************)
(* services/progress_service.py: streak management                         *)
(***************************************************************************)
\* ProgressService.update_streak on the Streak table st: the table after the
\* commit and the StreakUpdate response.  old_last is not in the response;
\* it records the last_practice_date the call started from.
update_streak_call(st, practice_date) ==
    LET row == IF st = <<>> THEN NewStreak ELSE st[1]
        old_streak == row.current_streak
        old_longest == row.longest_streak
        upd == Streak_update_streak(row, practice_date)
    IN  [table |-> <<upd.row>>,
         response |-> [op |-> "update_streak",
                       practice_date |-> practice_date,
                       old_last |-> row.last_practice_date,
                       old_streak |-> old_streak,
                       old_longest |-> old_longest,
                       current_streak |-> upd.row.current_streak,
                       longest_streak |-> upd.row.longest_streak,
                       last_practice_date |-> upd.row.last_practice_date,
                       is_at_risk |-> FALSE,
                       streak_maintained |-> upd.returned,
                       streak_increased |-> (upd.row.current_streak > old_streak),
                       new_record |-> (upd.row.longest_streak > old_longest)]]

\* ProgressService.update_streak(user_id, practice_date)
update_streak(practice_date) ==
    LET call == update_streak_call(streak, practice_date) IN
    /\ streak' = call.table
    /\ result' = call.response
    /\ UNCHANGED <<now, vocab_progress, daily_progress, user, user_achievements,
                   practice_tables, achievement_order, in_flight>>

\* get_streak that reports every day without practice as at risk: a
\* plausible slip
get_streak_any_gap(st, d) ==
    IF st = <<>>
    THEN [current_streak |-> 0, longest_streak |-> 0,
          last_practice_date |-> NoDate, is_at_risk |-> FALSE]
    ELSE [current_streak |-> st[1].current_streak,
          longest_streak |-> st[1].longest_streak,
          last_practice_date |-> st[1].last_practice_date,
          is_at_risk |-> /\ st[1].last_practice_date # NoDate
                         /\ d - st[1].last_practice_date >= 1
                         /\ st[1].current_streak > 0]

\* ProgressService.get_streak: the StreakResponse for the table st on day d
get_streak(st, d) ==
    IF st = <<>>
    THEN [current_streak |-> 0, longest_streak |-> 0,
          last_practice_date |-> NoDate, is_at_risk |-> FALSE]
    ELSE [current_streak |-> st[1].current_streak,
          longest_streak |-> st[1].longest_streak,
          last_practice_date |-> st[1].last_practice_date,
          is_at_risk |-> /\ st[1].last_practice_date # NoDate
                         /\ d - st[1].last_practice_date = 1
                         /\ st[1].current_streak > 0]

\* GET /progress/streak: get_streak(user_id) today
get_streak_request ==
    LET response == get_streak(streak, today) IN
    /\ result' = [op |-> "get_streak",
                  current_streak |-> response.current_streak,
                  longest_streak |-> response.longest_streak,
                  last_practice_date |-> response.last_practice_date,
                  is_at_risk |-> response.is_at_risk]
    /\ UNCHANGED <<now, vocab_progress, daily_progress, user, streak, user_achievements,
                   practice_tables, achievement_order, in_flight>>

(***************************************************************************)
(* The streak tracker under calls with arbitrary practice dates            *)
(***************************************************************************)
NextStreak ==
    \/ \E d \in Days : update_streak(d)
    \/ \E dt \in TickSteps : Tick(dt)

SpecStreak == InitSeeded /\ [][NextStreak]_vars

\* The Streak row before a step, as update_streak reads it
StreakRow == IF streak = <<>> THEN NewStreak ELSE streak[1]

\* The step is a call of update_streak
IsStreakCall == result'.op = "update_streak"

\* C4: in every reachable streak state longest_streak >= current_streak.
C4_LongestGeCurrent ==
    streak # <<>> => streak[1].longest_streak >= streak[1].current_streak

\* A streak of three days has been built, so longest_streak had to follow
\* current_streak upwards.
C4_Witness ==
    /\ streak # <<>>
    /\ streak[1].current_streak = 3
    /\ streak[1].longest_streak = 3

\* C5: a practice date one day after last_practice_date adds one to
\* current_streak, moves last_practice_date to the practice date, makes
\* longest_streak the maximum of its old value and the new current_streak,
\* and reports streak_maintained and streak_increased.
C5_GapOne ==
    [][(/\ IsStreakCall
        /\ StreakRow.last_practice_date # NoDate
        /\ result'.practice_date = StreakRow.last_practice_date + 1)
       => /\ streak'[1].current_streak = StreakRow.current_streak + 1
          /\ streak'[1].last_practice_date = result'.practice_date
          /\ streak'[1].longest_streak =
                Max(StreakRow.longest_streak, streak'[1].current_streak)
          /\ result'.streak_maintained
          /\ result'.streak_increased]_vars

\* A consecutive-day call has just returned, with an older record standing.
C5_Witness ==
    /\ result.op = "update_streak"
    /\ result.old_last # NoDate
    /\ result.practice_date = result.old_last + 1
    /\ result.current_streak = 2
    /\ result.longest_streak = 3

\* C6: a practice date more than one day after last_practice_date sets
\* current_streak to 1, moves last_practice_date, leaves longest_streak
\* alone and reports streak_maintained = false; the first practice, a
\* same-day call and a consecutive-day call report streak_maintained = true.
C6_GapOverOne ==
    [][IsStreakCall =>
        LET last == StreakRow.last_practice_date
            gap == result'.practice_date - last
        IN  /\ (last # NoDate /\ gap > 1) =>
                  /\ streak'[1].current_streak = 1
                  /\ streak'[1].last_practice_date = result'.practice_date
                  /\ streak'[1].longest_streak = StreakRow.longest_streak
                  /\ ~result'.streak_maintained
            /\ (last = NoDate \/ gap = 0 \/ gap = 1) =>
                  result'.streak_maintained]_vars

\* A streak of two days has just been broken by a gap of two or more days.
C6_Witness ==
    /\ result.op = "update_streak"
    /\ result.old_last # NoDate
    /\ result.practice_date - result.old_last > 1
    /\ result.old_streak >= 2
    /\ result.current_streak = 1

\* C7: a practice date equal to last_practice_date changes none of
\* current_streak, longest_streak and last_practice_date, and reports
\* streak_maintained = true and streak_increased = false.
C7_SameDay ==
    [][(/\ IsStreakCall
        /\ StreakRow.last_practice_date # NoDate
        /\ result'.practice_date = StreakRow.last_practice_date)
       => /\ streak' = streak
          /\ result'.streak_maintained
          /\ ~result'.streak_increased]_vars

\* A same-day call has just returned for a user with a streak of two days.
C7_Witness ==
    /\ result.op = "update_streak"
    /\ result.old_last = result.practice_date
    /\ result.old_streak = 2
    /\ result.current_streak = 2

\* C16: a practice date earlier than last_practice_date leaves
\* current_streak, longest_streak and last_practice_date as they were.
C16_BackwardDateNoOp ==
    [][(/\ IsStreakCall
        /\ StreakRow.last_practice_date # NoDate
        /\ result'.practice_date < StreakRow.last_practice_date)
       => streak' = streak]_vars

\* C20: every call of update_streak, whatever its practice date, leaves
\* longest_streak greater than or equal to its value before the call.
C20_LongestNeverDecreases ==
    [][IsStreakCall => streak'[1].longest_streak >= StreakRow.longest_streak]_vars

\* After a record of three days and a break, a consecutive day has raised
\* the current streak to 2 while the record stands.
C20_Witness ==
    /\ result.op = "update_streak"
    /\ result.old_longest = 3
    /\ result.old_streak = 1
    /\ result.current_streak = 2
    /\ result.longest_streak = 3

(***************************************************************************)
(* The streak tracker with the streak read on any day                      *)
(***************************************************************************)
NextStreakRead ==
    \/ \E d \in Days : update_streak(d)
    \/ \E dt \in TickSteps : Tick(dt)
    \/ get_streak_request

SpecStreakRead == InitSeeded /\ [][NextStreakRead]_vars

\* C17: get_streak reports is_at_risk = true exactly when there is a
\* last_practice_date, it is the day before today and current_streak > 0;
\* the call neither creates nor changes the Streak row.
C17_AtRiskFlag ==
    [][result'.op = "get_streak" =>
        /\ streak' = streak
        /\ result'.is_at_risk <=>
              /\ streak # <<>>
              /\ streak[1].last_practice_date # NoDate
              /\ today = streak[1].last_practice_date + 1
              /\ streak[1].current_streak > 0]_vars

\* The streak was read the day after the last practice and reported at risk.
C17_Witness ==
    /\ result.op = "get_streak"
    /\ result.is_at_risk
    /\ result.current_streak = 2
    /\ today = result.last_practice_date + 1

(***************************************************************************)
(* services/listening_service.py                                           *)
(***************************************************************************)
\* ListeningExercise.difficulty of the exercises in the database
exercise_difficulty(exercise_id) == exercise_id

\* len(exercise.questions) of every exercise in the database
TOTAL_QUESTIONS == 2

\* calculate_listening_xp: int(base * score/100 * 1.5 or 1 * 1.25 or 1),
\* at least 1
calculate_listening_xp(score_percent, difficulty, is_first_attempt) ==
    LET base_xp == CASE difficulty = 1 -> 10 [] difficulty = 2 -> 15
                     [] difficulty = 3 -> 20 [] OTHER -> 10
        first_attempt_bonus == IF is_first_attempt THEN 3 ELSE 2
        perfect_bonus == IF score_percent = 100 THEN 5 ELSE 4
        xp == (base_xp * score_percent * first_attempt_bonus * perfect_bonus)
              \div (100 * 2 * 4)
    IN  Max(1, xp)

\* ListeningService._update_daily_progress
listening_update_daily_progress(daily, d, xp_earned) ==
    IF d \notin DOMAIN daily
    THEN Put(daily, d, [NewDaily EXCEPT !.listening_completed = 1, !.xp_earned = xp_earned])
    ELSE [daily EXCEPT ![d].listening_completed = @ + 1, ![d].xp_earned = @ + xp_earned]

\* ListeningService.submit_answers for an existing exercise, with
\* correct_count of its questions answered correctly
submit_answers(exercise_id, correct_count) ==
    LET is_first_attempt == listening_attempts[exercise_id] = 0
        score_percent == (correct_count * 100) \div TOTAL_QUESTIONS
        xp_earned == calculate_listening_xp(score_percent,
                         exercise_difficulty(exercise_id), is_first_attempt)
    IN  /\ listening_attempts[exercise_id] < MaxAttempts
        /\ user.total_xp + xp_earned <= MaxXP
        /\ listening_attempts' = [listening_attempts EXCEPT ![exercise_id] = @ + 1]
        /\ daily_progress' = listening_update_daily_progress(daily_progress, today, xp_earned)
        /\ user' = update_user_stats(user, xp_earned, now)
        /\ result' = [op |-> "submit_answers", exercise_id |-> exercise_id,
                      score_percent |-> score_percent, xp_earned |-> xp_earned]
        /\ UNCHANGED <<now, vocab_progress, streak, user_achievements,
                       speaking_submissions, achievement_order, in_flight>>

(***************************************************************************)
(* services/speaking_service.py, worker/tasks/speaking_processor.py        *)
(***************************************************************************)
\* SpeakingScenario.difficulty of the scenarios in the database
scenario_difficulty(scenario_id) == scenario_id

\* calculate_speaking_xp, the score in hundredths:
\* int(base * max(0.2, (score - 1) / 5) * 1.5 or 1 * 1.25 or 1), at least 5
calculate_speaking_xp(overall_score, difficulty, is_first_submission) ==
    LET base_xp == CASE difficulty = 1 -> 15 [] difficulty = 2 -> 25
                     [] difficulty = 3 -> 35 [] OTHER -> 15
        score_multiplier == Max(100, overall_score - 100)
        first_bonus == IF is_first_submission THEN 3 ELSE 2
        high_score_bonus == IF overall_score >= 500 THEN 5 ELSE 4
        xp == (base_xp * score_multiplier * first_bonus * high_score_bonus)
              \div (500 * 2 * 4)
    IN  Max(5, xp)

\* SpeakingService.create_submission for an existing scenario
create_submission(scenario_id) ==
    /\ Len(speaking_submissions) < MaxSubmissions
    /\ speaking_submissions' = Append(speaking_submissions,
           [scenario_id |-> scenario_id, status |-> "pending", xp_earned |-> 0])
    /\ result' = [op |-> "create_submission", scenario_id |-> scenario_id]
    /\ UNCHANGED <<now, vocab_progress, daily_progress, user, streak,
                   user_achievements, listening_attempts, achievement_order, in_flight>>

\* _is_first_completed_submission
is_first_completed_submission(scenario_id) ==
    \A i \in DOMAIN speaking_submissions :
        ~(/\ speaking_submissions[i].scenario_id = scenario_id
          /\ speaking_submissions[i].status = "completed")

\* The submission counted in the day's record without its XP: a plausible
\* slip
speaking_update_daily_progress_count_only(daily, d, xp_earned) ==
    IF d \notin DOMAIN daily
    THEN Put(daily, d, [NewDaily EXCEPT !.speaking_completed = 1])
    ELSE [daily EXCEPT ![d].speaking_completed = @ + 1]

\* _update_user_progress: the DailyProgress part
speaking_update_daily_progress(daily, d, xp_earned) ==
    IF d \notin DOMAIN daily
    THEN Put(daily, d, [NewDaily EXCEPT !.speaking_completed = 1, !.xp_earned = xp_earned])
    ELSE [daily EXCEPT ![d].speaking_completed = @ + 1, ![d].xp_earned = @ + xp_earned]

\* The task process_submission when transcription and feedback succeed and
\* give the average score overall_score (in hundredths); a submission that
\* is already completed is left alone
process_submission(submission_id, overall_score) ==
    LET submission == speaking_submissions[submission_id] IN
    IF submission.status = "completed"
    THEN /\ result' = [op |-> "process_submission", submission_id |-> submission_id,
                       success |-> TRUE, xp_earned |-> 0]
         /\ UNCHANGED <<now, vocab_progress, daily_progress, user, streak,
                        user_achievements, practice_tables, achievement_order, in_flight>>
    ELSE LET is_first == is_first_completed_submission(submission.scenario_id)
             xp_earned == calculate_speaking_xp(overall_score,
                              scenario_difficulty(submission.scenario_id), is_first)
         IN  /\ user.total_xp + xp_earned <= MaxXP
             /\ speaking_submissions' = [speaking_submissions EXCEPT
                    ![submission_id].status = "completed",
                    ![submission_id].xp_earned = xp_earned]
             /\ user' = update_user_stats(user, xp_earned, now)
             /\ daily_progress' = speaking_update_daily_progress(daily_progress, today, xp_earned)
             /\ result' = [op |-> "process_submission", submission_id |-> submission_id,
                           success |-> TRUE, xp_earned |-> xp_earned]
             /\ UNCHANGED <<now, vocab_progress, streak, user_achievements,
                            listening_attempts, achievement_order, in_flight>>

(***************************************************************************)
(* services/progress_service.py: achievements                              *)
(***************************************************************************)
\* UserAchievement(user_id, achievement_id): the column defaults
NewUserAchievement == [progress |-> 0, is_unlocked |-> FALSE, unlocked_at |-> NoTime]

\* UserAchievement.unlock
unlock(self, t) == [self EXCEPT !.is_unlocked = TRUE, !.unlocked_at = t]

\* ProgressService._get_achievement_progress
_get_achievement_progress(achievement, u, streak_resp, vocab_count, listening_count, speaking_count) ==
    LET rt == achievement.requirement_type IN
    IF rt = "streak" THEN streak_resp.current_streak
    ELSE IF rt = "longest_streak" THEN streak_resp.longest_streak
    ELSE IF rt = "vocab_count" THEN vocab_count
    ELSE IF rt = "listening_count" THEN listening_count
    ELSE IF rt = "speaking_count" THEN speaking_count
    ELSE IF rt = "total_xp" THEN u.total_xp
    ELSE IF rt = "first" THEN
        IF achievement.category = "vocabulary" THEN (IF vocab_count > 0 THEN 1 ELSE 0)
        ELSE IF achievement.category = "listening" THEN (IF listening_count > 0 THEN 1 ELSE 0)
        ELSE IF achievement.category = "speaking" THEN (IF speaking_count > 0 THEN 1 ELSE 0)
        ELSE 0
    ELSE 0

\* The loop body without the "already earned" test: a plausible slip
award_one_again(acc, code, counts, t) ==
    LET achievement == ACHIEVEMENTS[code]
        has_row == code \in DOMAIN acc.ua
        current_value == _get_achievement_progress(achievement, acc.user,
                             counts.streak, counts.vocab_count,
                             counts.listening_count, counts.speaking_count)
    IN  IF current_value >= achievement.requirement_value
        THEN LET row == IF has_row THEN acc.ua[code] ELSE NewUserAchievement IN
             [ua |-> Put(acc.ua, code, unlock([row EXCEPT !.progress = current_value], t)),
              user |-> [acc.user EXCEPT !.total_xp = @ + achievement.xp_reward],
              newly_unlocked |-> Append(acc.newly_unlocked, code)]
        ELSE IF current_value > 0 /\ ~has_row
        THEN [acc EXCEPT !.ua = Put(acc.ua, code,
                                    [NewUserAchievement EXCEPT !.progress = current_value])]
        ELSE IF has_row
        THEN [acc EXCEPT !.ua[code].progress = current_value]
        ELSE acc

\* The loop body that unlocks only above the target: a plausible slip
award_one_strict(acc, code, counts, t) ==
    LET achievement == ACHIEVEMENTS[code]
        has_row == code \in DOMAIN acc.ua
        current_value == _get_achievement_progress(achievement, acc.user,
                             counts.streak, counts.vocab_count,
                             counts.listening_count, counts.speaking_count)
    IN  IF has_row /\ acc.ua[code].is_unlocked
        THEN acc
        ELSE IF current_value > achievement.requirement_value
        THEN LET row == IF has_row THEN acc.ua[code] ELSE NewUserAchievement IN
             [ua |-> Put(acc.ua, code, unlock([row EXCEPT !.progress = current_value], t)),
              user |-> [acc.user EXCEPT !.total_xp = @ + achievement.xp_reward],
              newly_unlocked |-> Append(acc.newly_unlocked, code)]
        ELSE IF current_value > 0 /\ ~has_row
        THEN [acc EXCEPT !.ua = Put(acc.ua, code,
                                    [NewUserAchievement EXCEPT !.progress = current_value])]
        ELSE IF has_row
        THEN [acc EXCEPT !.ua[code].progress = current_value]
        ELSE acc

\* One iteration of the loop of check_and_award_achievements over the
\* achievement `code`; acc holds the UserAchievement table, the User row and
\* the newly_unlocked list, counts the streak response and the three counts
\* read before the loop
award_one(acc, code, counts, t) ==
    LET achievement == ACHIEVEMENTS[code]
        has_row == code \in DOMAIN acc.ua
        current_value == _get_achievement_progress(achievement, acc.user,
                             counts.streak, counts.vocab_count,
                             counts.listening_count, counts.speaking_count)
    IN  IF has_row /\ acc.ua[code].is_unlocked
        THEN acc
        ELSE IF current_value >= achievement.requirement_value
        THEN LET row == IF has_row THEN acc.ua[code] ELSE NewUserAchievement IN
             [ua |-> Put(acc.ua, code, unlock([row EXCEPT !.progress = current_value], t)),
              user |-> [acc.user EXCEPT !.total_xp = @ + achievement.xp_reward],
              newly_unlocked |-> Append(acc.newly_unlocked, code)]
        ELSE IF current_value > 0 /\ ~has_row
        THEN [acc EXCEPT !.ua = Put(acc.ua, code,
                                    [NewUserAchievement EXCEPT !.progress = current_value])]
        ELSE IF has_row
        THEN [acc EXCEPT !.ua[code].progress = current_value]
        ELSE acc

RECURSIVE award_loop(_, _, _, _, _)
\* for achievement in achievements: the iterations from position i on
award_loop(acc, order, i, counts, t) ==
    IF i > Len(order) THEN acc
    ELSE award_loop(award_one(acc, order[i], counts, t), order, i + 1, counts, t)

\* ProgressService.check_and_award_achievements on the given tables, with
\* the achievements read in the given order at time t
check_and_award_call(u, ua, st, vp, order, t) ==
    LET counts == [streak |-> get_streak(st, date_of(t)),
                   vocab_count |-> Cardinality(DOMAIN vp),
                   listening_count |-> Cardinality(
                       {e \in Exercises : listening_attempts[e] > 0}),
                   speaking_count |-> Cardinality(
                       {speaking_submissions[i].scenario_id :
                          i \in {j \in DOMAIN speaking_submissions :
                                   speaking_submissions[j].status = "completed"}})]
    IN  award_loop([ua |-> ua, user |-> u, newly_unlocked |-> <<>>], order, 1, counts, t)

\* ProgressService.check_and_award_achievements(user_id)
check_and_award_achievements ==
    LET call == check_and_award_call(user, user_achievements, streak,
                                     vocab_progress, achievement_order, now) IN
    /\ user_achievements' = call.ua
    /\ user' = call.user
    /\ result' = [op |-> "check_and_award_achievements",
                  xp_earned |-> 0, newly_unlocked |-> call.newly_unlocked]
    /\ UNCHANGED <<now, vocab_progress, daily_progress, streak, practice_tables,
                   achievement_order, in_flight>>

(***************************************************************************)
(* services/progress_service.py: practice session                          *)
(***************************************************************************)
\* ProgressService.get_or_create_daily_progress
get_or_create_daily_progress(daily, target_date) ==
    IF target_date \in DOMAIN daily THEN daily ELSE Put(daily, target_date, NewDaily)

\* session_xp of log_practice_session
session_xp(session) ==
    session.vocab_reviewed * 2 + session.listening_completed * 10
    + session.speaking_completed * 15 + session.practice_minutes \div 5

\* ProgressService.log_practice_session run from its first statement to its
\* last on the given tables at time t: the tables after it and its response
log_practice_session_call(u, daily, st, ua, vp, order, session, t) ==
    LET d == date_of(t)
        xp == session_xp(session)
        daily0 == get_or_create_daily_progress(daily, d)
        minutes == daily0[d].practice_minutes + session.practice_minutes
        daily1 == [daily0 EXCEPT
            ![d].vocab_reviewed = @ + session.vocab_reviewed,
            ![d].listening_completed = @ + session.listening_completed,
            ![d].speaking_completed = @ + session.speaking_completed,
            ![d].practice_minutes = minutes,
            ![d].xp_earned = @ + xp,
            ![d].goal_met = IF u.daily_goal_minutes # 0 /\ minutes >= u.daily_goal_minutes
                            THEN TRUE ELSE @]
        user1 == [u EXCEPT !.total_xp = @ + xp,
                           !.total_practice_minutes = @ + session.practice_minutes,
                           !.last_practice_at = t]
        streak_update == update_streak_call(st, d)
        awards == check_and_award_call(user1, ua, streak_update.table, vp, order, t)
    IN  [daily_progress |-> daily1,
         streak |-> streak_update.table,
         user |-> awards.user,
         user_achievements |-> awards.ua,
         response |-> [op |-> "log_practice_session",
                       xp_earned |-> xp,
                       streak_maintained |-> streak_update.response.streak_maintained,
                       streak_increased |-> streak_update.response.streak_increased,
                       current_streak |-> streak_update.response.current_streak,
                       goal_met |-> daily1[d].goal_met,
                       newly_unlocked |-> awards.newly_unlocked]]

\* ProgressService.log_practice_session(user_id, session), no other request
\* of the user running at the same time and no statement failing
log_practice_session(session) ==
    LET call == log_practice_session_call(user, daily_progress, streak, user_achievements,
                                          vocab_progress, achievement_order, session, now)
    IN  /\ user.total_practice_minutes + session.practice_minutes <= MaxMinutes
        /\ user.total_xp + session_xp(session) <= MaxXP
        /\ daily_progress' = call.daily_progress
        /\ streak' = call.streak
        /\ user' = call.user
        /\ user_achievements' = call.user_achievements
        /\ result' = call.response
        /\ UNCHANGED <<now, vocab_progress, practice_tables, achievement_order, in_flight>>

\* PracticeSessionRequest with every field at its default
EmptySession == [vocab_reviewed |-> 0, listening_completed |-> 0,
                 speaking_completed |-> 0, practice_minutes |-> 0]

\* PracticeSessionRequest bodies that are sent: a short session and a long one
ShortSession == [vocab_reviewed |-> 0, listening_completed |-> 0,
                 speaking_completed |-> 0, practice_minutes |-> 20]
LongSession == [vocab_reviewed |-> 5, listening_completed |-> 2,
                speaking_completed |-> 62, practice_minutes |-> 20]
Sessions == {ShortSession, LongSession}

(***************************************************************************)
(* log_practice_session statement by statement.  Every request has its own *)
(* Session (db/session.py: autoflush=False, attributes expire on commit)   *)
(* and its own transaction of the MySQL database of core/config.py, whose  *)
(* default isolation level makes the reads of one transaction come from    *)
(* the snapshot of its first read.  A flush writes the changed attributes  *)
(* of the loaded objects with the values computed in Python.               *)
(***************************************************************************)
\* The four tables of the progression state as the database stores them
Database ==
    [user |-> user, daily_progress |-> daily_progress, streak |-> streak,
     user_achievements |-> user_achievements]

\* No request is between its first and its last statement
AllIdle == \A w \in Workers : db_sessions[w].pc = "idle"

\* UPDATE ... SET of a flush: the columns whose value in the Session differs
\* from the loaded one are written over the stored row
write_changed(stored, loaded, new) ==
    [c \in DOMAIN stored |-> IF new[c] # loaded[c] THEN new[c] ELSE stored[c]]

\* The request of worker w ends with an exception: the Session is closed,
\* what was not committed is rolled back
request_failed(w) ==
    /\ db_sessions' = [db_sessions EXCEPT ![w] = IdleSession]
    /\ started' = [started EXCEPT !.failed = @ + 1]
    /\ result' = [op |-> "log_practice_session_failed", worker |-> w,
                  base |-> db_sessions[w].base]

\* log_practice_session, lines 896-903: db.get(User) and the SELECT of
\* get_or_create_daily_progress
lps_read(w, session) ==
    /\ db_sessions[w].pc = "idle"
    /\ user.total_practice_minutes + session.practice_minutes <= MaxMinutes
    /\ user.total_xp + session_xp(session) <= MaxXP
    /\ db_sessions' = [db_sessions EXCEPT ![w] =
           [pc |-> "read", session |-> session, today |-> today,
            user |-> user,
            daily |-> IF today \in DOMAIN daily_progress
                      THEN <<daily_progress[today]>> ELSE <<>>,
            streak |-> streak,
            base |-> Database]]
    /\ started' = IF AllIdle
                  THEN [base |-> Database, at |-> now, requests |-> <<session>>,
                        failed |-> 0]
                  ELSE [started EXCEPT !.requests = Append(@, session)]
    /\ result' = [op |-> "lps_read", worker |-> w]
    /\ UNCHANGED <<now, vocab_progress, daily_progress, user, streak,
                   user_achievements, practice_tables, achievement_order>>

\* Worker v has inserted the DailyProgress row of day d and not committed
daily_insert_pending(v, d) ==
    /\ db_sessions[v].pc = "updated"
    /\ db_sessions[v].daily_inserted
    /\ db_sessions[v].today = d

\* log_practice_session, lines 903-925: the INSERT and flush of
\* get_or_create_daily_progress when the SELECT found no row, which waits
\* for an uncommitted row with the same key and fails on a committed one,
\* then the updates of the loaded objects
lps_update(w) ==
    LET me == db_sessions[w]
        session == me.session
        d == me.today
        loaded == IF me.daily = <<>> THEN NewDaily ELSE me.daily[1]
        minutes == loaded.practice_minutes + session.practice_minutes
        xp == session_xp(session)
    IN  /\ me.pc = "read"
        /\ me.daily = <<>> => \A v \in Workers \ {w} : ~daily_insert_pending(v, d)
        /\ IF me.daily = <<>> /\ d \in DOMAIN daily_progress
           THEN request_failed(w)
           ELSE /\ db_sessions' = [db_sessions EXCEPT ![w] =
                      [pc |-> "updated", session |-> session, today |-> d,
                       user |-> me.user, streak |-> me.streak, base |-> me.base,
                       daily_inserted |-> (me.daily = <<>>),
                       daily_loaded |-> loaded,
                       daily_new |-> [loaded EXCEPT
                           !.vocab_reviewed = @ + session.vocab_reviewed,
                           !.listening_completed = @ + session.listening_completed,
                           !.speaking_completed = @ + session.speaking_completed,
                           !.practice_minutes = minutes,
                           !.xp_earned = @ + xp,
                           !.goal_met = IF me.user.daily_goal_minutes # 0
                                           /\ minutes >= me.user.daily_goal_minutes
                                        THEN TRUE ELSE @],
                       user_new |-> [me.user EXCEPT
                           !.total_xp = @ + xp,
                           !.total_practice_minutes = @ + session.practice_minutes,
                           !.last_practice_at = now]]]
                /\ result' = [op |-> "lps_update", worker |-> w]
                /\ UNCHANGED started
        /\ UNCHANGED <<now, vocab_progress, daily_progress, user, streak,
                       user_achievements, practice_tables, achievement_order>>

\* log_practice_session, line 930: update_streak(user_id, today), whose
\* commit writes the DailyProgress, User and Streak changes of the request;
\* the INSERT of a Streak row fails when another request has committed one
lps_update_streak(w) ==
    LET me == db_sessions[w]
        d == me.today
        call == update_streak_call(me.streak, d)
    IN  /\ me.pc = "updated"
        /\ IF me.streak = <<>> /\ streak # <<>>
           THEN /\ request_failed(w)
                /\ UNCHANGED <<daily_progress, user, streak>>
           ELSE /\ daily_progress' =
                      IF me.daily_inserted
                      THEN Put(daily_progress, d, me.daily_new)
                      ELSE [daily_progress EXCEPT
                              ![d] = write_changed(@, me.daily_loaded, me.daily_new)]
                /\ user' = write_changed(user, me.user, me.user_new)
                /\ streak' = IF me.streak = <<>>
                             THEN call.table
                             ELSE <<write_changed(streak[1], me.streak[1], call.table[1])>>
                /\ db_sessions' = [db_sessions EXCEPT ![w] =
                      [pc |-> "streaked", session |-> me.session, today |-> d,
                       base |-> me.base, streak_update |-> call.response,
                       goal_met |-> me.daily_new.goal_met]]
                /\ result' = [op |-> "lps_update_streak", worker |-> w]
                /\ UNCHANGED started
        /\ UNCHANGED <<now, vocab_progress, user_achievements, practice_tables,
                       achievement_order>>

\* check_and_award_achievements, lines 753-792: the reads of the evaluation,
\* in the transaction that begins after the commit of update_streak
lps_check_read(w) ==
    LET me == db_sessions[w] IN
    /\ me.pc = "streaked"
    /\ db_sessions' = [db_sessions EXCEPT ![w] =
           [pc |-> "checking", session |-> me.session, today |-> me.today,
            base |-> me.base, streak_update |-> me.streak_update,
            goal_met |-> me.goal_met,
            user |-> user, user_achievements |-> user_achievements,
            streak |-> streak, vocab_progress |-> vocab_progress]]
    /\ result' = [op |-> "lps_check_read", worker |-> w]
    /\ UNCHANGED <<now, vocab_progress, daily_progress, user, streak,
                   user_achievements, practice_tables, achievement_order, started>>

\* check_and_award_achievements, lines 793-845, and the rest of
\* log_practice_session: the loop over what was read and the commit, in
\* which the INSERT of a UserAchievement row fails when another request has
\* committed a row for the same achievement
lps_check_commit(w) ==
    LET me == db_sessions[w]
        awards == check_and_award_call(me.user, me.user_achievements, me.streak,
                                       me.vocab_progress, achievement_order, now)
        inserted == DOMAIN awards.ua \ DOMAIN me.user_achievements
    IN  /\ me.pc = "checking"
        /\ IF inserted \cap DOMAIN user_achievements # {}
           THEN /\ request_failed(w)
                /\ UNCHANGED <<user, user_achievements>>
           ELSE /\ user_achievements' =
                      [a \in DOMAIN user_achievements \cup inserted |->
                          IF a \in inserted THEN awards.ua[a]
                          ELSE IF a \in DOMAIN me.user_achievements
                          THEN write_changed(user_achievements[a],
                                             me.user_achievements[a], awards.ua[a])
                          ELSE user_achievements[a]]
                /\ user' = write_changed(user, me.user, awards.user)
                /\ db_sessions' = [db_sessions EXCEPT ![w] = IdleSession]
                /\ result' = [op |-> "log_practice_session_returned", worker |-> w,
                              xp_earned |-> session_xp(me.session),
                              streak_maintained |-> me.streak_update.streak_maintained,
                              streak_increased |-> me.streak_update.streak_increased,
                              current_streak |-> me.streak_update.current_streak,
                              goal_met |-> me.goal_met,
                              newly_unlocked |-> awards.newly_unlocked]
                /\ UNCHANGED started
        /\ UNCHANGED <<now, vocab_progress, daily_progress, streak, practice_tables,
                       achievement_order>>

\* The next statement of the request of worker w raises an error of the
\* database (the connection is lost, a lock wait times out)
lps_statement_fails(w) ==
    /\ db_sessions[w].pc \in {"read", "updated", "streaked", "checking"}
    /\ request_failed(w)
    /\ UNCHANGED <<now, vocab_progress, daily_progress, user, streak,
                   user_achievements, practice_tables, achievement_order>>

(***************************************************************************)
(* One request at a time, any of whose statements may fail                 *)
(***************************************************************************)
NextTxn ==
    \/ \E s \in Sessions : lps_read(1, s)
    \/ lps_update(1)
    \/ lps_update_streak(1)
    \/ lps_check_read(1)
    \/ lps_check_commit(1)
    \/ lps_statement_fails(1)
    \/ AllIdle /\ Tick(HOURS_PER_DAY)

SpecTxn == InitSeeded /\ [][NextTxn]_vars

\* C11: when a statement of log_practice_session fails, the DailyProgress
\* rows, the User row (total_xp), the Streak row and the UserAchievement
\* rows are those the database held when the request began.
C11_AllOrNothing ==
    result.op = "log_practice_session_failed" => Database = result.base

(***************************************************************************)
(* Two server processes handle requests of the user at the same time; no   *)
(* statement fails unless a unique key is violated                         *)
(***************************************************************************)
NextConc ==
    \/ \E w \in Workers, s \in Sessions : lps_read(w, s)
    \/ \E w \in Workers : lps_update(w)
    \/ \E w \in Workers : lps_update_streak(w)
    \/ \E w \in Workers : lps_check_read(w)
    \/ \E w \in Workers : lps_check_commit(w)
    \/ AllIdle /\ 1 \notin DOMAIN vocab_progress /\ submit_review(1, 5)
    \/ AllIdle /\ Tick(HOURS_PER_DAY)

SpecConc == InitSeeded /\ [][NextConc]_vars

\* The four tables after log_practice_session has run alone on the tables db
Serial(db, session, t) ==
    LET call == log_practice_session_call(db.user, db.daily_progress, db.streak,
                    db.user_achievements, vocab_progress, achievement_order, session, t)
    IN  [user |-> call.user, daily_progress |-> call.daily_progress,
         streak |-> call.streak, user_achievements |-> call.user_achievements]

\* C12: when two log_practice_session requests of the user that ran at the
\* same time have both returned, the DailyProgress, User, Streak and
\* UserAchievement rows are those that running the two one after the other,
\* in one of the two orders, leaves.
C12_PerUserSerialization ==
    (/\ result.op = "log_practice_session_returned"
     /\ AllIdle
     /\ Len(started.requests) = 2
     /\ started.failed = 0) =>
        LET r1 == started.requests[1]
            r2 == started.requests[2]
        IN  Database \in {Serial(Serial(started.base, r1, started.at), r2, started.at),
                          Serial(Serial(started.base, r2, started.at), r1, started.at)}

(***************************************************************************)
(* The achievement engine under practice sessions, the first review of a   *)
(* term, direct evaluations and passing days                               *)
(***************************************************************************)
NextAch ==
    \/ \E s \in Sessions : log_practice_session(s)
    \/ check_and_award_achievements
    \/ 1 \notin DOMAIN vocab_progress /\ submit_review(1, 5)
    \/ Tick(HOURS_PER_DAY)

SpecAch == Init /\ [][NextAch]_vars

(***************************************************************************)
(* The achievement engine while the user reviews one new term after the    *)
(* other on one day, and consecutive practice dates are reported to the    *)
(* streak tracker                                                          *)
(***************************************************************************)
NextVocab ==
    \/ \E q \in {5} :
         LET t == Cardinality(DOMAIN vocab_progress) + 1 IN
         t \in Terms /\ submit_review(t, q)
    \/ log_practice_session(LongSession)
    \/ \E d \in Days :
         /\ streak # <<>>
         /\ d = streak[1].last_practice_date + 1
         /\ update_streak(d)
    \/ check_and_award_achievements

SpecVocab == Init /\ [][NextVocab]_vars

(***************************************************************************)
(* The achievement engine evaluated between streak updates whose practice *)
(* dates never go backwards                                                *)
(***************************************************************************)
NextStreakAch ==
    \/ \E d \in Days :
         /\ streak # <<>> => d >= streak[1].last_practice_date
         /\ update_streak(d)
    \/ check_and_award_achievements

SpecStreakAch == InitSeeded /\ [][NextStreakAch]_vars

\* C15: no event and no evaluation lowers the stored progress of an
\* achievement that is not unlocked, a streak achievement after a broken
\* streak included.
C15_ProgressNonDecreasing ==
    [][\A a \in DOMAIN user_achievements :
          ~user_achievements[a].is_unlocked =>
             /\ a \in DOMAIN user_achievements'
             /\ user_achievements'[a].progress >= user_achievements[a].progress]_vars

(***************************************************************************)
(* All requests of the user, in any order                                  *)
(***************************************************************************)
SpeakingScores == {350, 600}

Next ==
    \/ \E t \in Terms, q \in Qualities : submit_review(t, q)
    \/ \E e \in Exercises, c \in 0..TOTAL_QUESTIONS : submit_answers(e, c)
    \/ \E sc \in Scenarios : create_submission(sc)
    \/ \E i \in DOMAIN speaking_submissions, sc \in SpeakingScores :
         process_submission(i, sc)
    \/ \E s \in Sessions : log_practice_session(s)
    \/ \E w \in Workers, s \in Sessions : lps_read(w, s)
    \/ \E w \in Workers : lps_update(w)
    \/ \E w \in Workers : lps_update_streak(w)
    \/ \E w \in Workers : lps_check_read(w)
    \/ \E w \in Workers : lps_check_commit(w)
    \/ \E w \in Workers : lps_statement_fails(w)
    \/ \E d \in Days : update_streak(d)
    \/ get_streak_request
    \/ check_and_award_achievements
    \/ apply_calculate_mastery_percent
    \/ apply_calculate_sm2
    \/ \E dt \in TickSteps : Tick(dt)

Spec == Init /\ [][Next]_vars

(***************************************************************************)
(* Properties of the achievement engine                                    *)
(***************************************************************************)
\* The achievements whose record is unlocked in the table ua
UnlockedIn(ua) == {a \in DOMAIN ua : ua[a].is_unlocked}

RECURSIVE SumRewards(_)
\* The sum of xp_reward over a set of achievements
SumRewards(S) ==
    IF S = {} THEN 0
    ELSE LET a == CHOOSE x \in S : TRUE IN
         ACHIEVEMENTS[a].xp_reward + SumRewards(S \ {a})

\* The XP the operation that returned r reported for the event itself
EventXp(r) ==
    IF r.op \in {"submit_review", "log_practice_session"} THEN r.xp_earned ELSE 0

\* The achievements the operation that returned r reported as newly unlocked
NewlyOf(r) ==
    IF r.op \in {"check_and_award_achievements", "log_practice_session"}
    THEN {r.newly_unlocked[i] : i \in DOMAIN r.newly_unlocked}
    ELSE {}

\* C8: once an achievement record is unlocked, no later event or evaluation
\* changes its is_unlocked flag, unlock timestamp or progress, reports it as
\* newly unlocked, or adds its reward again: a step adds to total_xp the
\* XP of the event and the rewards of the records that become unlocked in it.
C8_UnlockPermanence ==
    [][/\ \A a \in UnlockedIn(user_achievements) :
            /\ a \in DOMAIN user_achievements'
            /\ user_achievements'[a] = user_achievements[a]
            /\ a \notin NewlyOf(result')
       /\ user'.total_xp = user.total_xp + EventXp(result')
            + SumRewards(UnlockedIn(user_achievements') \ UnlockedIn(user_achievements))
      ]_vars

\* An evaluation has just run at a later time than an unlock whose
\* requirement is still met, and the record kept its timestamp.
C8_Witness ==
    /\ result.op = "check_and_award_achievements"
    /\ "first_word" \in UnlockedIn(user_achievements)
    /\ user_achievements["first_word"].unlocked_at < now
    /\ 1 \in DOMAIN vocab_progress

\* C9: an evaluation that directly follows a call that unlocked achievements
\* returns no newly unlocked achievement and leaves the unlocked set and
\* total_xp unchanged.
C9_IdempotentUnlock ==
    [][(NewlyOf(result) # {} /\ result'.op = "check_and_award_achievements")
       => /\ result'.newly_unlocked = <<>>
          /\ UnlockedIn(user_achievements') = UnlockedIn(user_achievements)
          /\ user'.total_xp = user.total_xp]_vars

\* The position of achievement a in the scan order
ScanPos(a) == CHOOSE i \in DOMAIN achievement_order : achievement_order[i] = a

\* The value the evaluation of this step reads for achievement a: the
\* counter of its requirement type after the event of the step; lifetime XP
\* includes the rewards of the achievements this evaluation unlocked before
\* it came to a.
ValueAtEvaluation(a) ==
    LET rt == ACHIEVEMENTS[a].requirement_type
        rows == Cardinality(DOMAIN vocab_progress)
        earlier == {b \in NewlyOf(result') : ScanPos(b) < ScanPos(a)}
    IN  CASE rt = "first" -> IF rows > 0 THEN 1 ELSE 0
          [] rt = "vocab_count" -> rows
          [] rt = "streak" -> IF streak' = <<>> THEN 0 ELSE streak'[1].current_streak
          [] rt = "total_xp" -> user.total_xp + EventXp(result') + SumRewards(earlier)

\* C10: an evaluation (called directly or by log_practice_session) unlocks
\* a locked achievement exactly when the value of its requirement type is
\* >= requirement_value; what it unlocks is what it returns, each once, and
\* total_xp grows by the rewards of exactly those; with 9 reviewed terms
\* vocab_10 stays locked with progress 9, with 10 it is unlocked.
C10_UnlockRule ==
    [][result'.op \in {"check_and_award_achievements", "log_practice_session"} =>
        LET before == UnlockedIn(user_achievements)
            after == UnlockedIn(user_achievements')
            rows == Cardinality(DOMAIN vocab_progress)
        IN  /\ \A a \in AchIds \ before :
                  (a \in after) <=>
                  (ValueAtEvaluation(a) >= ACHIEVEMENTS[a].requirement_value)
            /\ NewlyOf(result') = after \ before
            /\ Len(result'.newly_unlocked) = Cardinality(NewlyOf(result'))
            /\ user'.total_xp = user.total_xp + EventXp(result')
                                + SumRewards(NewlyOf(result'))
            /\ (rows = 9 /\ "vocab_10" \notin before) =>
                  /\ "vocab_10" \in DOMAIN user_achievements'
                  /\ ~user_achievements'["vocab_10"].is_unlocked
                  /\ user_achievements'["vocab_10"].progress = 9
            /\ (rows = 10 /\ "vocab_10" \notin before) =>
                  /\ "vocab_10" \in NewlyOf(result')
                  /\ user_achievements'["vocab_10"].is_unlocked]_vars

\* The evaluation after the tenth distinct term has just unlocked vocab_10.
C10_Witness ==
    /\ result.op = "check_and_award_achievements"
    /\ Cardinality(DOMAIN vocab_progress) = 10
    /\ "vocab_10" \in NewlyOf(result)
    /\ user_achievements["vocab_10"].is_unlocked
    /\ user_achievements["vocab_10"].progress = 10

(***************************************************************************)
(* The learning events of one user, one request after the other: reviews   *)
(* of a term, listening attempts, speaking submissions and their           *)
(* processing, practice sessions, evaluations of the achievements, and     *)
(* passing days                                                            *)
(***************************************************************************)
NextEvents ==
    \/ \E q \in {1, 5} : review_row(1).total_reviews < 2 /\ submit_review(1, q)
    \/ listening_attempts[1] = 0 /\ submit_answers(1, TOTAL_QUESTIONS)
    \/ speaking_submissions = <<>> /\ create_submission(1)
    \/ \E i \in DOMAIN speaking_submissions : process_submission(i, 600)
    \/ log_practice_session(ShortSession)
    \/ check_and_award_achievements
    \/ today = 0 /\ Tick(HOURS_PER_DAY)

SpecEvents == InitSeeded /\ [][NextEvents]_vars

\* The counters of a DailyProgress record
DailyCounters == {"vocab_reviewed", "listening_completed", "speaking_completed",
                  "practice_minutes", "xp_earned"}

\* The value of a counter of the day d in the table daily, 0 without a record
CounterOf(daily, d, c) == IF d \in DOMAIN daily THEN daily[d][c] ELSE 0

\* The XP the learning event that returned r earned
LearningXp(r) ==
    IF r.op \in {"submit_review", "submit_answers", "process_submission",
                 "log_practice_session"}
    THEN r.xp_earned ELSE 0

\* C21: DailyProgress is additive.  A date has at most one record, created
\* by the first learning event of that day; no record disappears; a step
\* leaves the records of other days alone and lowers no counter of the
\* day; the day's xp_earned grows by exactly the XP of the event, and a
\* review, a listening attempt and a credited speaking submission each
\* add one to their counter.
C21_DailyAdditive ==
    [][/\ DOMAIN daily_progress \subseteq DOMAIN daily_progress'
       /\ \A d \in DOMAIN daily_progress' :
            /\ d \notin DOMAIN daily_progress =>
                  /\ d = today
                  /\ result'.op \in {"submit_review", "submit_answers",
                                     "process_submission", "log_practice_session"}
            /\ d # today => daily_progress'[d] = daily_progress[d]
            /\ \A c \in DailyCounters :
                  daily_progress'[d][c] >= CounterOf(daily_progress, d, c)
            /\ daily_progress'[d].xp_earned
                  = CounterOf(daily_progress, d, "xp_earned")
                    + (IF d = today THEN LearningXp(result') ELSE 0)
            /\ (d = today /\ result'.op = "submit_review") =>
                  daily_progress'[d].vocab_reviewed
                    = CounterOf(daily_progress, d, "vocab_reviewed") + 1
            /\ (d = today /\ result'.op = "submit_answers") =>
                  daily_progress'[d].listening_completed
                    = CounterOf(daily_progress, d, "listening_completed") + 1
            /\ (d = today /\ result'.op = "process_submission"
                          /\ result'.xp_earned > 0) =>
                  daily_progress'[d].speaking_completed
                    = CounterOf(daily_progress, d, "speaking_completed") + 1
      ]_vars

\* A day on which a review, a listening attempt, a speaking submission and
\* a practice session have all added to the one record of the day, the
\* review as a later event of the day
C21_Witness ==
    /\ today \in DOMAIN daily_progress
    /\ daily_progress[today].vocab_reviewed >= 2
    /\ daily_progress[today].listening_completed >= 1
    /\ daily_progress[today].speaking_completed >= 1
    /\ daily_progress[today].practice_minutes > 0
    /\ result.op = "submit_review"

(***************************************************************************)
(* The SM-2 update rule                                                    *)
(***************************************************************************)
\* C22: a review with quality q moves the ease factor to
\* max(1.3, ease + 0.1 - (5 - q)(0.08 + (5 - q) 0.02)); a recalled item
\* (q >= 3) gets the interval 1 at its first repetition, 6 at its second and
\* afterwards the prior interval times the new ease factor, rounded to the
\* nearest day and capped at 365.  A new item reviewed with 5, 5, 1 goes
\* through (2.6, 1, 1) and (2.7, 6, 2) to a lower ease factor of at least
\* 1.3 with interval 1 and repetitions 0.
C22_SM2Rule ==
    [][result'.op = "submit_review" =>
         LET prior == review_row(1)
             after == vocab_progress'[1]
             q == after.last_quality
             ease == Max(130, prior.ease_factor + 10 - (5 - q) * (8 + (5 - q) * 2))
             n == prior.interval_days * ease
         IN  /\ after.ease_factor = ease
             /\ q >= 3 =>
                  /\ after.repetitions = prior.repetitions + 1
                  /\ after.repetitions = 1 => after.interval_days = 1
                  /\ after.repetitions = 2 => after.interval_days = 6
                  /\ after.repetitions > 2 =>
                       \E k \in {n \div 100, n \div 100 + 1} :
                          /\ 100 * k - n <= 50
                          /\ n - 100 * k <= 50
                          /\ after.interval_days = (IF k > 365 THEN 365 ELSE k)
             /\ (prior.total_reviews = 0 /\ q = 5) =>
                  /\ after.ease_factor = 260
                  /\ after.interval_days = 1
                  /\ after.repetitions = 1
             /\ (prior.total_reviews = 1 /\ prior.last_quality = 5 /\ q = 5) =>
                  /\ after.ease_factor = 270
                  /\ after.interval_days = 6
                  /\ after.repetitions = 2
             /\ (prior.total_reviews = 2 /\ prior.ease_factor = 270 /\ q = 1) =>
                  /\ after.ease_factor < 270
                  /\ after.ease_factor >= 130
                  /\ after.interval_days = 1
                  /\ after.repetitions = 0
      ]_vars

\* The new item after the reviews 5, 5, 1
C22_Witness ==
    /\ 1 \in DOMAIN vocab_progress
    /\ vocab_progress[1].total_reviews = 3
    /\ vocab_progress[1].correct_reviews = 2
    /\ vocab_progress[1].last_quality = 1
    /\ vocab_progress[1].ease_factor = 216
    /\ vocab_progress[1].interval_days = 1
    /\ vocab_progress[1].repetitions = 0

(***************************************************************************)
(* The streak as a count of calendar days.  The user logs practice         *)
(* sessions as the days pass: every session calls update_streak with the   *)
(* date of its day, so the dates never go backwards, and it leaves the     *)
(* DailyProgress record of that day behind                                 *)
(***************************************************************************)
NextPractice ==
    \/ log_practice_session(EmptySession)
    \/ \E dt \in TickSteps : Tick(dt)

SpecPractice == InitSeeded /\ [][NextPractice]_vars

\* The dates update_streak has been called with
PracticeDates == DOMAIN daily_progress

RECURSIVE ConsecutiveDays(_, _)
\* The number of consecutive days of the set S that end at day d
ConsecutiveDays(d, S) == IF d \notin S THEN 0 ELSE 1 + ConsecutiveDays(d - 1, S)

\* C23: after update_streak calls with non-decreasing dates, starting from
\* no streak history, last_practice_date is the latest date of a call,
\* current_streak is the number of consecutive calendar days ending at
\* last_practice_date on each of which update_streak was called, and
\* current_streak is 0 exactly when there is no last_practice_date.
C23_StreakMeaning ==
    /\ StreakRow.current_streak = 0 <=> StreakRow.last_practice_date = NoDate
    /\ PracticeDates = {} <=> StreakRow.last_practice_date = NoDate
    /\ PracticeDates # {} =>
         /\ StreakRow.last_practice_date \in PracticeDates
         /\ \A d \in PracticeDates : d <= StreakRow.last_practice_date
         /\ StreakRow.current_streak
              = ConsecutiveDays(StreakRow.last_practice_date, PracticeDates)

\* Practice on days 0 and 1, none on day 2, practice on days 3 and 4: the
\* streak counts the last two days only
C23_Witness ==
    /\ PracticeDates = {0, 1, 3, 4}
    /\ streak # <<>>
    /\ streak[1].current_streak = 2
    /\ streak[1].last_practice_date = 4

(***************************************************************************)
(* services/spaced_repetition.py: calculate_priority                       *)
(***************************************************************************)
\* The ease bonus rounded to the nearest integer: a plausible slip
ease_bonus_rounded(ease_factor) ==
    IF ease_factor >= 250 THEN {0} ELSE {(250 - ease_factor + 3) \div 6}

\* max(0, int((2.5 - ease_factor) / 1.2 * 20)): (250 - ease) / 6 cut off
\* toward zero.  When the exact quotient is an integer the double quotient
\* may lie a rounding error below it (ease 1.84 gives 10, not 11), so the
\* integer below is a possible outcome too.
ease_bonus(ease_factor) ==
    LET n == 250 - ease_factor IN
    IF n <= 0 THEN {0}
    ELSE IF n % 6 = 0 THEN {n \div 6 - 1, n \div 6}
    ELSE {n \div 6}

\* The bonus of an item with fewer than three repetitions
rep_bonus(repetitions) == IF repetitions < 3 THEN (3 - repetitions) * 10 ELSE 0

\* calculate_priority at time t: the set of (priority, overdue_days) it can
\* return.  overdue_delta.days and overdue_delta.seconds // 3600 are the
\* whole days and the remaining whole hours of t - next_review_at.
calculate_priority(next_review_at, ease_factor, repetitions, t) ==
    LET due == next_review_at <= t
        overdue_days == IF due THEN (t - next_review_at) \div HOURS_PER_DAY ELSE 0
        overdue_hours == IF due THEN (t - next_review_at) % HOURS_PER_DAY ELSE 0
    IN  { [priority |-> overdue_days * 100 + overdue_hours + b + rep_bonus(repetitions),
           overdue_days |-> overdue_days] : b \in ease_bonus(ease_factor) }

\* The arguments calculate_priority is applied to
DueTimes == {0, 5, 24, 55, 96}
PriorityEases == {130, 131, 178, 180, 184, 220, 247, 250, 251, 300}

\* calculate_priority applied to any item at the current time
apply_calculate_priority ==
    /\ \E next_review_at \in DueTimes, ease_factor \in PriorityEases,
          repetitions \in 0..4 :
         \E returned \in calculate_priority(next_review_at, ease_factor, repetitions, now) :
            result' = [op |-> "calculate_priority",
                       next_review_at |-> next_review_at,
                       ease_factor |-> ease_factor,
                       repetitions |-> repetitions,
                       at |-> now,
                       returned |-> returned]
    /\ UNCHANGED <<now, vocab_progress, daily_progress, user, streak, user_achievements,
                   practice_tables, achievement_order, in_flight>>

NextPriority ==
    \/ apply_calculate_priority
    \/ \E dt \in TickSteps : Tick(dt)

SpecPriority == InitSeeded /\ [][NextPriority]_vars

\* The score of the call recorded in r without its ease bonus
ScoreLessEaseBonus(r) ==
    LET overdue == IF r.next_review_at <= r.at THEN r.at - r.next_review_at ELSE 0
    IN  (overdue \div 24) * 100 + (overdue % 24)
        + (IF r.repetitions < 3 THEN (3 - r.repetitions) * 10 ELSE 0)

\* C24 as stated: the score is overdueDays * 100 + overdueHours + easeBonus
\* + repBonus with easeBonus = max(0, round((2.5 - ease) / 1.2 * 20)), the
\* quotient rounded to the nearest integer, not truncated.
C24_PriorityRounded ==
    result.op = "calculate_priority" =>
        LET b == result.returned.priority - ScoreLessEaseBonus(result)
            n == 250 - result.ease_factor
        IN  /\ b >= 0
            /\ n <= 0 => b = 0
            /\ n > 0 => (6 * b - n <= 3 /\ n - 6 * b <= 3)

\* C24, amended: the score is overdueDays * 100 + overdueHours + easeBonus
\* + repBonus with easeBonus = max(0, int((2.5 - ease) / 1.2 * 20)), the
\* quotient cut off toward zero (one less where the exact quotient is an
\* integer and the double falls below it), and repBonus = (3 - reps) * 10
\* when reps < 3, else 0; overdue_days is the number of whole days overdue.
C24_PriorityTruncated ==
    result.op = "calculate_priority" =>
        LET b == result.returned.priority - ScoreLessEaseBonus(result)
            n == 250 - result.ease_factor
        IN  /\ b >= 0
            /\ n <= 0 => b = 0
            /\ n > 0 => (6 * b <= n /\ n <= 6 * b + 6)
            /\ n > 0 /\ n % 6 # 0 => n < 6 * b + 6
            /\ result.returned.overdue_days
                 = (IF result.next_review_at <= result.at
                    THEN (result.at - result.next_review_at) \div 24 ELSE 0)

\* An item of ease 1.8 with one repetition, two days and seven hours
\* overdue: 200 + 7 + 11 + 20, where rounding would give the ease bonus 12
C24_Witness ==
    /\ result.op = "calculate_priority"
    /\ result.ease_factor = 180
    /\ result.repetitions = 1
    /\ result.at - result.next_review_at = 55
    /\ result.returned.priority = 238
    /\ result.returned.overdue_days = 2

(***************************************************************************)
(* services/vocabulary_service.py: get_review_queue                        *)
(***************************************************************************)
\* VocabularyTerm.difficulty of the terms in the database
term_difficulty(term_id) == 3 - (term_id % 3)

\* The key of ORDER BY difficulty, term: the terms are named so that their
\* alphabetical order is the order of their ids
new_term_key(term_id) == term_difficulty(term_id) * (NumTerms + 1) + term_id

RECURSIVE new_terms_in_order(_)
\* The terms of S in the order of the new-terms query
new_terms_in_order(S) ==
    IF S = {} THEN <<>>
    ELSE LET first == CHOOSE x \in S : \A y \in S : new_term_key(x) <= new_term_key(y)
         IN  <<first>> \o new_terms_in_order(S \ {first})

\* due_with_priority.sort(key=priority, reverse=True): the orders the sort
\* can leave the due terms in.  The query has no ORDER BY and the sort is
\* stable, so terms of equal priority come in any order.
sort_by_priority(due_items, priority_of) ==
    { order \in [1..Cardinality(due_items) -> due_items] :
        /\ \A i, j \in DOMAIN order : i # j => order[i] # order[j]
        /\ \A i, j \in DOMAIN order :
             i < j => priority_of[order[i]].priority >= priority_of[order[j]].priority }

\* The room for new terms taken as the whole limit: a plausible slip
remaining_slots_unreduced(limit, items) == limit

\* remaining = limit - len(items)
remaining_slots(limit, items) == limit - Len(items)

\* The first n elements of the sequence s
Take(s, n) == SubSeq(s, 1, Min(n, Len(s)))

\* VocabularyService.get_review_queue(user_id, limit, include_new) without a
\* category filter
get_review_queue(limit, include_new) ==
    LET due_items == {t \in DOMAIN vocab_progress : vocab_progress[t].next_review_at <= now}
        priorities(t) == calculate_priority(vocab_progress[t].next_review_at,
                                            vocab_progress[t].ease_factor,
                                            vocab_progress[t].repetitions, now)
        new_terms == new_terms_in_order(Terms \ DOMAIN vocab_progress)
    IN  /\ \E priority_of \in [due_items -> UNION {priorities(t) : t \in due_items}] :
            /\ \A t \in due_items : priority_of[t] \in priorities(t)
            /\ \E order \in sort_by_priority(due_items, priority_of) :
                 LET due_part == [i \in 1..Min(limit, Len(order)) |->
                                    [term_id |-> order[i], is_new |-> FALSE,
                                     priority |-> priority_of[order[i]].priority,
                                     overdue_days |-> priority_of[order[i]].overdue_days]]
                     add_new == include_new /\ Len(due_part) < limit
                     new_part == IF add_new
                                 THEN Take(new_terms, remaining_slots(limit, due_part))
                                 ELSE <<>>
                 IN  result' = [op |-> "get_review_queue",
                                limit |-> limit,
                                include_new |-> include_new,
                                items |-> due_part \o
                                          [i \in DOMAIN new_part |->
                                             [term_id |-> new_part[i], is_new |-> TRUE,
                                              priority |-> 0, overdue_days |-> 0]],
                                total_due |-> Cardinality(due_items),
                                total_new |-> IF add_new THEN Len(new_terms) ELSE 0]
        /\ UNCHANGED <<now, vocab_progress, daily_progress, user, streak, user_achievements,
                       practice_tables, achievement_order, in_flight>>

\* The limits a queue is asked with
QueueLimits == 1..3

(***************************************************************************)
(* The review queue of a user who reviews two new terms as the days pass   *)
(***************************************************************************)
NextQueue ==
    \/ \E t \in {1, 2}, q \in {1, 5} :
         t \notin DOMAIN vocab_progress /\ submit_review(t, q)
    \/ \E limit \in QueueLimits, include_new \in BOOLEAN :
         get_review_queue(limit, include_new)
    \/ \E dt \in TickSteps : Tick(dt)

SpecQueue == InitSeeded /\ [][NextQueue]_vars

\* C25: a review queue has at most limit items, its due items come before
\* its new items, the due items are in non-increasing priority and are due,
\* new items appear only when include_new is set and fewer than limit terms
\* are due, they have no progress record and are in non-decreasing
\* difficulty, and no term appears twice.
C25_ReviewQueue ==
    result.op = "get_review_queue" =>
        LET items == result.items IN
        /\ Len(items) <= result.limit
        /\ \A i, j \in DOMAIN items :
             i < j =>
               /\ items[i].is_new => items[j].is_new
               /\ items[i].term_id # items[j].term_id
               /\ (~items[i].is_new /\ ~items[j].is_new) =>
                     items[i].priority >= items[j].priority
               /\ (items[i].is_new /\ items[j].is_new) =>
                     term_difficulty(items[i].term_id) <= term_difficulty(items[j].term_id)
        /\ \A i \in DOMAIN items :
             IF items[i].is_new
             THEN /\ result.include_new
                  /\ result.total_due < result.limit
                  /\ items[i].term_id \notin DOMAIN vocab_progress
             ELSE /\ items[i].term_id \in DOMAIN vocab_progress
                  /\ vocab_progress[items[i].term_id].next_review_at <= now

\* A queue of three with two due terms of different priority followed by
\* one new term
C25_Witness ==
    /\ result.op = "get_review_queue"
    /\ Len(result.items) = 3
    /\ ~result.items[2].is_new
    /\ result.items[1].priority > result.items[2].priority
    /\ result.items[3].is_new

(***************************************************************************)
(* services/progress_service.py: the predicted ICAO level.  Scores are in  *)
(* hundredths of a level, percentages in tenths of a percent.              *)
(***************************************************************************)
\* round(n / d, .): the nearest integer to n / d; on an exact half the
\* double quotient can fall on either side
round_div(n, d) ==
    IF (2 * n) % (2 * d) = d THEN {n \div d, n \div d + 1}
    ELSE {(2 * n + d) \div (2 * d)}

RECURSIVE SumSeq(_)
\* sum(s) of a sequence of numbers
SumSeq(s) == IF s = <<>> THEN 0 ELSE s[1] + SumSeq(Tail(s))

\* The six ICAO criteria, in the order of ICAOCriteriaProgress
Criteria == 1..6

\* criteria_totals[c] of _get_speaking_stats: the scores of criterion c of
\* the completed submissions that have one
criteria_totals(submissions, c) ==
    LET with_score == SelectSeq(submissions, LAMBDA s : s[c] # 0)
    IN  [i \in DOMAIN with_score |-> with_score[i][c]]

\* The values _get_speaking_stats can give criterion c: the rounded mean of
\* its scores, 3.0 without a score
criterion_progress(submissions, c) ==
    LET totals == criteria_totals(submissions, c) IN
    IF totals = <<>> THEN {300} ELSE round_div(SumSeq(totals), Len(totals))

\* The ICAOCriteriaProgress values _get_speaking_stats can build
icao_criteria_of(submissions) ==
    { <<p, s, v, f, c, i>> :
        p \in criterion_progress(submissions, 1), s \in criterion_progress(submissions, 2),
        v \in criterion_progress(submissions, 3), f \in criterion_progress(submissions, 4),
        c \in criterion_progress(submissions, 5), i \in criterion_progress(submissions, 6) }

\* ICAOCriteriaProgress.average(): round(sum of the six / 6, 2)
ICAOCriteriaProgress_average(icao_criteria) ==
    round_div(SumSeq(icao_criteria), 6)

\* ProgressService._calculate_predicted_icao_level: the levels it can return
\* for the given vocabulary mastery percent, listening average score and
\* ICAO criteria.  The sum is kept in 100000ths of a level.
_calculate_predicted_icao_level(mastery_percent, average_score, icao_criteria) ==
    UNION { LET listening_normalized == 100000 + average_score * 500
                vocab_normalized == 100000 + mastery_percent * 500
                predicted == (speaking_level * 1000 * 60 + listening_normalized * 25
                              + vocab_normalized * 15) \div 100
                clamped == Max(100000, Min(600000, predicted))
            IN  round_div(clamped, 1000)
            : speaking_level \in ICAOCriteriaProgress_average(icao_criteria) }

\* The six scores of the completed speaking submissions a user can have, the
\* vocabulary mastery percents and the listening average scores
SubmissionScores == {<<400, 400, 400, 400, 400, 200>>, <<500, 500, 500, 500, 500, 500>>,
                     <<300, 400, 300, 400, 300, 400>>}
CompletedSubmissions == {<<>>} \cup {<<a>> : a \in SubmissionScores}
                        \cup {<<a, b>> : a, b \in SubmissionScores}
MasteryPercents == {0, 333, 500, 1000}
AverageScores == {0, 500, 875, 1000}

\* The predicted level computed for a user with the given statistics, as
\* log_practice_session and get_comprehensive_stats compute it
apply_calculate_predicted_icao_level ==
    /\ \E submissions \in CompletedSubmissions, mastery_percent \in MasteryPercents,
          average_score \in AverageScores :
         \E icao_criteria \in icao_criteria_of(submissions) :
            /\ \E returned \in _calculate_predicted_icao_level(mastery_percent,
                                   average_score, icao_criteria) :
                 result' = [op |-> "predicted_icao_level",
                            submissions |-> submissions,
                            mastery_percent |-> mastery_percent,
                            average_score |-> average_score,
                            icao_criteria |-> icao_criteria,
                            returned |-> returned]
    /\ UNCHANGED <<now, vocab_progress, daily_progress, user, streak, user_achievements,
                   practice_tables, achievement_order, in_flight>>

NextLevel == apply_calculate_predicted_icao_level

SpecLevel == InitSeeded /\ [][NextLevel]_vars

\* The smallest of the six criteria
MinCriterion(icao_criteria) ==
    CHOOSE m \in {icao_criteria[c] : c \in Criteria} :
        \A c \in Criteria : m <= icao_criteria[c]

\* C26: the predicted level is within 1.0 .. 6.0 and is the weighted sum of
\* the three sub-scores (speaking 60%, listening 25%, vocabulary 15%, or
\* 50%, 25%, 25%), rounded, where the speaking sub-score is the minimum of
\* the six ICAO criteria, or the average of the vocabulary and listening
\* sub-scores when the user has no speaking data.
C26_SpeakingMinimum ==
    result.op = "predicted_icao_level" =>
        LET vocab == 100000 + result.mastery_percent * 500
            listening == 100000 + result.average_score * 500
            speaking == IF result.submissions # <<>>
                        THEN MinCriterion(result.icao_criteria) * 1000
                        ELSE (vocab + listening) \div 2
        IN  /\ result.returned >= 100
            /\ result.returned <= 600
            /\ \E w \in {<<60, 25, 15>>, <<50, 25, 25>>} :
                 LET predicted == w[1] * speaking + w[2] * listening + w[3] * vocab
                     clamped == Max(10000000, Min(60000000, predicted))
                 IN  /\ result.returned * 100000 - clamped <= 50000
                     /\ clamped - result.returned * 100000 <= 50000

(***************************************************************************)
(* services/spaced_repetition.py: is_mastered                              *)
(***************************************************************************)
\* A term counted as mastered from four repetitions on: a plausible slip
is_mastered_four_repetitions(ease_factor, repetitions, correct_reviews, total_reviews) ==
    /\ total_reviews # 0
    /\ repetitions >= 4
    /\ ease_factor >= 230
    /\ 10 * correct_reviews >= 8 * total_reviews

\* is_mastered: repetitions >= 5, ease_factor >= 2.3 and accuracy >= 0.8,
\* False without a review
is_mastered(ease_factor, repetitions, correct_reviews, total_reviews) ==
    /\ total_reviews # 0
    /\ repetitions >= 5
    /\ ease_factor >= 230
    /\ 10 * correct_reviews >= 8 * total_reviews

\* The recorded call of calculate_mastery_percent was for a mastered term
MasteredCall ==
    /\ result.op = "calculate_mastery_percent"
    /\ is_mastered(result.ease_factor, result.repetitions,
                   result.correct_reviews, result.total_reviews)

\* C27 as stated: whenever is_mastered is true, calculate_mastery_percent
\* is at least 80, the threshold the statistics use.
C27_MasteredAtLeast80 == MasteredCall => result.returned >= 800

\* C27, amended: whenever is_mastered is true, calculate_mastery_percent is
\* at least 79.6, which is below the threshold of 80 the statistics use.
C27_MasteredAtLeast796 == MasteredCall => result.returned >= 796

\* A term with ease factor 2.3, five repetitions and four correct reviews
\* out of five: mastered, with a mastery percent of 79.6
C27_Witness ==
    /\ MasteredCall
    /\ result.ease_factor = 230
    /\ result.repetitions = 5
    /\ result.correct_reviews = 4
    /\ result.total_reviews = 5
    /\ result.returned = 796

(***************************************************************************)
(* services/progress_service.py: get_achievements, in a database whose     *)
(* achievements table holds a secret achievement too                       *)
(***************************************************************************)
\* The order of db/seed_achievements.py with the secret xp_50000
SecretOrder == <<"first_word", "vocab_10", "streak_3", "xp_1000", "xp_50000">>

\* A new user in that database
InitSecret ==
    /\ now = 0
    /\ vocab_progress = EmptyTable
    /\ daily_progress = EmptyTable
    /\ user = NewUser
    /\ streak = <<>>
    /\ user_achievements = EmptyTable
    /\ listening_attempts = [e \in Exercises |-> 0]
    /\ speaking_submissions = <<>>
    /\ achievement_order = SecretOrder
    /\ db_sessions = [w \in Workers |-> IdleSession]
    /\ started = NothingStarted
    /\ result = [op |-> "init"]

RECURSIVE by_sort_order(_)
\* select(Achievement).order_by(sort_order, category) over the rows S
by_sort_order(S) ==
    IF S = {} THEN <<>>
    ELSE LET first == CHOOSE a \in S :
                 \A b \in S : ACHIEVEMENTS[a].sort_order <= ACHIEVEMENTS[b].sort_order
         IN  <<first>> \o by_sort_order(S \ {first})

\* The branch get_achievements takes for an achievement: the list it is
\* appended to, or "none"
listed_in(code, ua) ==
    IF code \in DOMAIN ua /\ ua[code].is_unlocked THEN "earned"
    ELSE IF code \in DOMAIN ua /\ ua[code].progress > 0 THEN "in_progress"
    ELSE IF ~ACHIEVEMENTS[code].is_hidden THEN "locked"
    ELSE "none"

\* ProgressService.get_achievements on the achievement rows and the user's
\* records ua: the codes of the three lists of the response
get_achievements_call(order, ua) ==
    LET all_achievements == by_sort_order({order[i] : i \in DOMAIN order})
        list(name) == SelectSeq(all_achievements, LAMBDA code : listed_in(code, ua) = name)
    IN  [earned |-> list("earned"),
         in_progress |-> list("in_progress"),
         locked |-> list("locked"),
         total_earned |-> Len(list("earned")),
         total_xp_from_achievements |->
             SumRewards({code \in DOMAIN ua : listed_in(code, ua) = "earned"})]

\* GET /progress/achievements
get_achievements ==
    LET response == get_achievements_call(achievement_order, user_achievements) IN
    /\ result' = [op |-> "get_achievements",
                  earned |-> response.earned,
                  in_progress |-> response.in_progress,
                  locked |-> response.locked,
                  total_earned |-> response.total_earned,
                  total_xp_from_achievements |-> response.total_xp_from_achievements]
    /\ UNCHANGED <<now, vocab_progress, daily_progress, user, streak, user_achievements,
                   practice_tables, achievement_order, in_flight>>

NextSecret ==
    \/ log_practice_session(ShortSession)
    \/ 1 \notin DOMAIN vocab_progress /\ submit_review(1, 5)
    \/ check_and_award_achievements
    \/ get_achievements
    \/ Tick(HOURS_PER_DAY)

SpecSecret == InitSecret /\ [][NextSecret]_vars

\* The codes in the sequence s
Codes(s) == {s[i] : i \in DOMAIN s}

\* C28: a hidden achievement is evaluated like any other, but the
\* achievement list never shows it, as earned, in progress or locked,
\* before it is unlocked, whatever its progress.
C28_HiddenNotListed ==
    result.op = "get_achievements" =>
        \A code \in Codes(achievement_order) :
            (/\ ACHIEVEMENTS[code].is_hidden
             /\ ~(code \in DOMAIN user_achievements /\ user_achievements[code].is_unlocked))
            => code \notin Codes(result.earned) \cup Codes(result.in_progress)
                           \cup Codes(result.locked)

(***************************************************************************)
(* XP conservation                                                         *)
(***************************************************************************)
RECURSIVE SumDailyXp(_, _)
\* The sum of xp_earned over the records of the days S of the table daily
SumDailyXp(daily, S) ==
    IF S = {} THEN 0
    ELSE LET d == CHOOSE x \in S : TRUE IN
         daily[d].xp_earned + SumDailyXp(daily, S \ {d})

\* C29: starting from total_xp = 0, after any sequence of learning events
\* and achievement evaluations that run one after the other, total_xp is
\* the sum of xp_earned over all DailyProgress records plus the sum of
\* xp_reward over the unlocked achievements.
C29_XpConservation ==
    user.total_xp = SumDailyXp(daily_progress, DOMAIN daily_progress)
                    + SumRewards(UnlockedIn(user_achievements))

\* XP earned on two days by a review, a listening attempt, a speaking
\* submission and a practice session, and the reward of first_word
C29_Witness ==
    /\ Cardinality(DOMAIN daily_progress) = 2
    /\ "first_word" \in UnlockedIn(user_achievements)
    /\ 1 \in DOMAIN vocab_progress
    /\ listening_attempts[1] > 0
    /\ \E i \in DOMAIN speaking_submissions : speaking_submissions[i].status = "completed"
    /\ user.total_practice_minutes > 0
    /\ user.total_xp > SumDailyXp(daily_progress, DOMAIN daily_progress)

(***************************************************************************)
(* worker/tasks/speaking_processor.py: the task process_submission step by *)
(* step.  Each run of the task has its own Session; the task is delivered  *)
(* at least once (worker/celery_app.py: task_acks_late,                    *)
(* task_reject_on_worker_lost) and is retried after an exception           *)
(* (autoretry_for=(Exception,)).                                           *)
(***************************************************************************)
\* Lines 57-85: worker w receives the task for the submission, as a new or
\* duplicate delivery or as the retry it is waiting for.  A completed
\* submission ends the run; otherwise the status becomes PROCESSING and is
\* committed, and the next read opens the snapshot the run works on.
ps_begin(w, submission_id) ==
    /\ \/ db_sessions[w].pc = "idle"
       \/ db_sessions[w].pc = "ps_retry" /\ db_sessions[w].submission_id = submission_id
    /\ LET submission == speaking_submissions[submission_id] IN
       IF submission.status = "completed"
       THEN /\ db_sessions' = [db_sessions EXCEPT ![w] = IdleSession]
            /\ result' = [op |-> "process_submission_task", worker |-> w,
                          submission_id |-> submission_id, success |-> TRUE,
                          message |-> "Already processed"]
            /\ UNCHANGED speaking_submissions
       ELSE /\ speaking_submissions' = [speaking_submissions EXCEPT
                   ![submission_id].status = "processing"]
            /\ db_sessions' = [db_sessions EXCEPT ![w] =
                   [pc |-> "ps_processing", submission_id |-> submission_id,
                    is_first |-> is_first_completed_submission(submission.scenario_id)]]
            /\ result' = [op |-> "ps_begin", worker |-> w,
                          submission_id |-> submission_id]
    /\ UNCHANGED <<now, vocab_progress, daily_progress, user, streak, user_achievements,
                   listening_attempts, achievement_order, started>>

\* Lines 87-179 when transcription or feedback raises: the except block marks
\* the submission failed and raises again, and the task waits for its retry
ps_processing_fails(w) ==
    /\ db_sessions[w].pc = "ps_processing"
    /\ LET submission_id == db_sessions[w].submission_id IN
       /\ speaking_submissions' =
             IF speaking_submissions[submission_id].status # "completed"
             THEN [speaking_submissions EXCEPT ![submission_id].status = "failed"]
             ELSE speaking_submissions
       /\ db_sessions' = [db_sessions EXCEPT ![w] =
              [pc |-> "ps_retry", submission_id |-> submission_id]]
       /\ result' = [op |-> "process_submission_task_failed", worker |-> w,
                     submission_id |-> submission_id]
    /\ UNCHANGED <<now, vocab_progress, daily_progress, user, streak, user_achievements,
                   listening_attempts, achievement_order, started>>

\* Lines 87-162: transcription and feedback succeed with the average score
\* overall_score; the scores, the XP and the status COMPLETED are committed
ps_complete(w, overall_score) ==
    /\ db_sessions[w].pc = "ps_processing"
    /\ LET submission_id == db_sessions[w].submission_id
           submission == speaking_submissions[submission_id]
           xp_earned == calculate_speaking_xp(overall_score,
                            scenario_difficulty(submission.scenario_id),
                            db_sessions[w].is_first)
       IN  /\ user.total_xp + xp_earned <= MaxXP
           /\ speaking_submissions' = [speaking_submissions EXCEPT
                  ![submission_id].status = "completed",
                  ![submission_id].xp_earned = xp_earned]
           /\ db_sessions' = [db_sessions EXCEPT ![w] =
                  [pc |-> "ps_completed", submission_id |-> submission_id,
                   xp_earned |-> xp_earned]]
           /\ result' = [op |-> "ps_complete", worker |-> w,
                         submission_id |-> submission_id]
    /\ UNCHANGED <<now, vocab_progress, daily_progress, user, streak, user_achievements,
                   listening_attempts, achievement_order, started>>

\* Lines 165-179: _update_user_progress adds the XP to the user and to the
\* day's record and commits, and the task returns
ps_update_user_progress(w) ==
    /\ db_sessions[w].pc = "ps_completed"
    /\ LET xp_earned == db_sessions[w].xp_earned IN
       /\ user' = update_user_stats(user, xp_earned, now)
       /\ daily_progress' = speaking_update_daily_progress(daily_progress, today, xp_earned)
       /\ result' = [op |-> "process_submission_task", worker |-> w,
                     submission_id |-> db_sessions[w].submission_id, success |-> TRUE,
                     message |-> "processed"]
    /\ db_sessions' = [db_sessions EXCEPT ![w] = IdleSession]
    /\ UNCHANGED <<now, vocab_progress, streak, user_achievements, practice_tables,
                   achievement_order, started>>

\* Lines 165 and 181-197: the run ends between the commit of COMPLETED and
\* the commit of _update_user_progress, by a database error or the loss of
\* the worker; the except block leaves a completed submission alone, and
\* the task is retried or delivered again
ps_fails_after_completed(w) ==
    /\ db_sessions[w].pc = "ps_completed"
    /\ db_sessions' = [db_sessions EXCEPT ![w] =
           [pc |-> "ps_retry", submission_id |-> db_sessions[w].submission_id]]
    /\ result' = [op |-> "process_submission_task_failed", worker |-> w,
                  submission_id |-> db_sessions[w].submission_id]
    /\ UNCHANGED <<now, vocab_progress, daily_progress, user, streak, user_achievements,
                   practice_tables, achievement_order, started>>

NextWorker ==
    \/ \E sc \in Scenarios : Len(speaking_submissions) < 2 /\ create_submission(sc)
    \/ \E w \in Workers, i \in DOMAIN speaking_submissions : ps_begin(w, i)
    \/ \E w \in Workers : ps_processing_fails(w)
    \/ \E w \in Workers, score \in SpeakingScores : ps_complete(w, score)
    \/ \E w \in Workers : ps_update_user_progress(w)
    \/ \E w \in Workers : ps_fails_after_completed(w)
    \/ today = 0 /\ Tick(HOURS_PER_DAY)

SpecWorker == InitSeeded /\ [][NextWorker]_vars

\* The completed submissions
CompletedIds ==
    {i \in DOMAIN speaking_submissions : speaking_submissions[i].status = "completed"}

RECURSIVE SumSubmissionXp(_)
\* The sum of xp_earned over the submissions S
SumSubmissionXp(S) ==
    IF S = {} THEN 0
    ELSE LET i == CHOOSE x \in S : TRUE IN
         speaking_submissions[i].xp_earned + SumSubmissionXp(S \ {i})

RECURSIVE SumSpeakingCompleted(_)
\* The sum of speaking_completed over the DailyProgress records of the days S
SumSpeakingCompleted(S) ==
    IF S = {} THEN 0
    ELSE LET d == CHOOSE x \in S : TRUE IN
         daily_progress[d].speaking_completed + SumSpeakingCompleted(S \ {d})

\* C30: the XP of a speaking submission is credited exactly once for each
\* submission that reaches COMPLETED, even when process_submission runs
\* more than once or fails after COMPLETED has been committed: when no run
\* of the task is under way or waiting for its retry, the user's total_xp
\* and the days' xp_earned are the sum of the XP of the completed
\* submissions, and the days count each of them once.
C30_SpeakingXpOnce ==
    AllIdle =>
        /\ user.total_xp = SumSubmissionXp(CompletedIds)
        /\ SumDailyXp(daily_progress, DOMAIN daily_progress) = SumSubmissionXp(CompletedIds)
        /\ SumSpeakingCompleted(DOMAIN daily_progress) = Cardinality(CompletedIds)

====
